---- MODULE Spec2Model ----
(***************************************************************************)
(* Model of the entropy_check static analyser (src/scripts/entropy_check): *)
(* the file scanner, the import graph builder, the check modules, the      *)
(* EntropyChecker facade and the command line entry point.                 *)
(*                                                                         *)
(* Paths, source lines and violation details are strings, as in the code.  *)
(* A source file's text is a sequence of statements; Render gives the line *)
(* of text each statement stands for, and the scanner and the checks read  *)
(* those lines.                                                            *)
(***************************************************************************)
EXTENDS Integers, Sequences, FiniteSets, TLC

VARIABLES
    root,        \* the resolved path given to main()
    rootExists,  \* whether the path given to main() exists
    tree,        \* the files on disk under root, in the order rglob yields them
    pc,          \* position in main() / EntropyChecker.run_all_checks
    files,       \* EntropyChecker.files
    violations,  \* EntropyChecker.violations
    graph,       \* EntropyChecker.graph
    passed,      \* <<value returned by the last run_all_checks>>, <<>> before
    output,      \* what main() ended with: "report", "summary", "error", "" before
    printed,     \* the lines written to standard output
    trace,       \* history: the steps of the call of run_all_checks under way, in the
                 \* order they ran, each with the violations it returned
    exitCode,    \* status given to sys.exit, -1 while the process runs
    runs,        \* completed calls of run_all_checks on this checker
    firstRun     \* history: violations as they stood when the first call returned

vars ==
    <<root, rootExists, tree, pc, files, violations, graph, passed, output, printed, trace, exitCode,
      runs, firstRun>>

---------------------------------------------------------------------------
(* Bounds of the model *)

MaxFiles == 3
MaxRuns == 2

---------------------------------------------------------------------------
(* Strings *)

Ch(s, i) == SubSeq(s, i, i)

\* Python: a in b
IsSubstr(a, b) == \E i \in 0..(Len(b) - Len(a)) : SubSeq(b, i + 1, i + Len(a)) = a

StartsWith(s, p) == Len(p) <= Len(s) /\ SubSeq(s, 1, Len(p)) = p

Max(S) == CHOOSE x \in S : \A y \in S : y <= x
Min(S) == CHOOSE x \in S : \A y \in S : x <= y

\* last position of character c in s, 0 when absent
LastIndexOf(s, c) == Max({0} \cup {i \in 1..Len(s) : Ch(s, i) = c})

\* first position >= from where p occurs in s, 0 when absent
FindFrom(s, p, from) ==
    LET hits == {i \in from..(Len(s) - Len(p) + 1) : SubSeq(s, i, i + Len(p) - 1) = p}
    IN  IF hits = {} THEN 0 ELSE Min(hits)

Digit(d) == SubSeq("0123456789", d + 1, d + 1)

RECURSIVE ToStr(_)
ToStr(n) == IF n < 10 THEN Digit(n) ELSE ToStr(n \div 10) \o Digit(n % 10)

\* A loop "for i in lo..hi: st = Op(st, s, i)" over the characters of a text or the
\* items of a list, computed by halves so that long texts do not nest deeply.
RECURSIVE Fold(_, _, _, _, _)
Fold(Op(_, _, _), st, s, lo, hi) ==
    IF lo > hi THEN st
    ELSE IF lo = hi THEN Op(st, s, lo)
    ELSE LET mid == (lo + hi) \div 2
         IN  CHOOSE r \in {Fold(Op, x, s, mid + 1, hi) : x \in {Fold(Op, st, s, lo, mid)}} : TRUE

\* F(s, lo) \o ... \o F(s, hi), computed by halves
RECURSIVE Concat(_, _, _, _)
Concat(F(_, _), s, lo, hi) ==
    IF lo > hi THEN SubSeq(s, 1, 0)
    ELSE IF lo = hi THEN F(s, lo)
    ELSE LET mid == (lo + hi) \div 2
         IN  Concat(F, s, lo, mid) \o Concat(F, s, mid + 1, hi)

\* sep.join(ss)
Join(sep, ss) ==
    IF ss = <<>> THEN ""
    ELSE Concat(LAMBDA t, i : IF i = 1 THEN t[1] ELSE sep \o t[i], ss, 1, Len(ss))

RECURSIVE Strip(_)
Strip(s) ==
    IF s = "" THEN s
    ELSE IF Ch(s, 1) = " " THEN Strip(SubSeq(s, 2, Len(s)))
    ELSE IF Ch(s, Len(s)) = " " THEN Strip(SubSeq(s, 1, Len(s) - 1))
    ELSE s

\* one character of s.split(sep): a separator that begins at i, at or after the
\* place where the piece under way began, ends that piece
SplitStep(st, s, i) ==
    IF i >= st.from /\ i + Len(st.sep) - 1 <= Len(s) /\ SubSeq(s, i, i + Len(st.sep) - 1) = st.sep
    THEN [st EXCEPT !.pieces = Append(@, SubSeq(s, st.from, i - 1)), !.from = i + Len(st.sep)]
    ELSE st

\* s.split(sep)
Split(s, sep) ==
    LET st == Fold(SplitStep, [pieces |-> <<>>, from |-> 1, sep |-> sep], s, 1, Len(s))
    IN  Append(st.pieces, SubSeq(s, st.from, Len(s)))

Range(seq) == {seq[i] : i \in DOMAIN seq}

LowerChars == "abcdefghijklmnopqrstuvwxyz"
UpperChars == "ABCDEFGHIJKLMNOPQRSTUVWXYZ"
DigitChars == "0123456789"

IsLowerCh(c) == IsSubstr(c, LowerChars)
IsUpperCh(c) == IsSubstr(c, UpperChars)
\* regex \w
IsWordCh(c) == IsLowerCh(c) \/ IsUpperCh(c) \/ IsSubstr(c, DigitChars) \/ c = "_"

---------------------------------------------------------------------------
(* Source text.  A statement is one line of a file; Render is the line.    *)

Stmt(k, specs, from, note) == [k |-> k, specs |-> specs, from |-> from, note |-> note]
Name(n) == [n |-> n, as |-> ""]
Alias(n, m) == [n |-> n, as |-> m]

ExportNamed(n) == Stmt("exportNamed", <<Name(n)>>, "", "")
ExportDefault(n) == Stmt("exportDefault", <<Name(n)>>, "", "")
ImportNamed(specs, p) == Stmt("importNamed", specs, p, "")
ImportDefault(n, p) == Stmt("importDefault", <<Name(n)>>, p, "")
ImportAll(n, p) == Stmt("importAll", <<Name(n)>>, p, "")
Use(n) == Stmt("use", <<Name(n)>>, "", "")
Window(n) == Stmt("window", <<Name(n)>>, "", "")
Comment(note) == Stmt("comment", <<>>, "", note)
\* a line of code given as it is written, which none of the import and export
\* patterns of graph.py matches
Line(s) == Stmt("line", <<>>, "", s)
Blank == Stmt("blank", <<>>, "", "")

RenderSpec(sp) == IF sp.as = "" THEN sp.n ELSE sp.n \o " as " \o sp.as

\* the text between the braces of a named import
ImportsStr(specs) == " " \o Join(", ", [i \in DOMAIN specs |-> RenderSpec(specs[i])]) \o " "

Render(st) ==
    CASE st.k = "exportNamed" -> "export function " \o st.specs[1].n \o "() {}"
      [] st.k = "exportDefault" ->
            IF st.specs[1].n = "" THEN "export default {}"
            ELSE "export default function " \o st.specs[1].n \o "() {}"
      [] st.k = "importNamed" -> "import {" \o ImportsStr(st.specs) \o "} from '" \o st.from \o "'"
      [] st.k = "importDefault" -> "import " \o st.specs[1].n \o " from '" \o st.from \o "'"
      [] st.k = "importAll" -> "import * as " \o st.specs[1].n \o " from '" \o st.from \o "'"
      [] st.k = "use" -> st.specs[1].n \o "();"
      [] st.k = "window" -> "window." \o st.specs[1].n \o " = " \o st.specs[1].n
      [] st.k = "comment" -> "// " \o st.note
      [] st.k = "line" -> st.note
      [] st.k = "blank" -> "  "

\* A text: its statements, followed by pad more lines of plain code ("0;").
Text(stmts, pad) == [stmts |-> stmts, pad |-> pad]
EmptyText == Text(<<>>, 0)

TextLines(text) == [i \in DOMAIN text.stmts |-> Render(text.stmts[i])]

\* The text without its padding.  The padding lines hold no brace, quote, comment,
\* keyword or operator, and follow the statements: what a check finds in the whole
\* text it finds in this part.
Code(text) == Join("\n", TextLines(text))

\* A file on disk: path relative to root; read is "ok", "perm" (no permission
\* to read) or "enc" (readable bytes that are not valid UTF-8).
Entry(path, read, text) == [path |-> path, read |-> read, text |-> text]

\* the bytes of the file
Bytes(e) ==
    Join("\n", TextLines(e.text)) \o "+" \o ToStr(e.text.pad)
        \o (IF e.read = "enc" THEN "\\xff" ELSE "")

---------------------------------------------------------------------------
(* config.py *)

THRESHOLD_backend == 500
THRESHOLD_frontend == 300
THRESHOLD_css == 600
THRESHOLD_default == 500

IGNORE_PATTERNS ==
    {"node_modules", "__pycache__", ".git", "yarn.lock", "package-lock.json",
     ".wrangler", "dist", "build", "entropy_check", ".venv", "venv", "env",
     "site-packages", "vault-api"}

ANALYZE_EXTENSIONS == {".js", ".py", ".css", ".ts", ".jsx", ".tsx"}

ENTRY_POINTS == {"backend/index.js", "frontend/app/index.js", "index.js"}

COMPLEXITY_THRESHOLD == 15
NESTING_THRESHOLD == 5
FUNCTION_LENGTH_THRESHOLD == 60
COMMENTED_BLOCK_THRESHOLD == 5
COUPLING_THRESHOLD == 10
GOD_FILE_THRESHOLD == 5

COUPLING_EXCEPTIONS == {"backend/index.js", "frontend/app/index.js"}
GOD_FILE_EXCEPTIONS == {"backend/cors.js", "frontend/app/api.js", "frontend/app/state.js"}

---------------------------------------------------------------------------
(* pathlib *)

Abs(rel) == root \o "/" \o rel

\* Path.relative_to(root); the callers below only pass paths under root
RelativeTo(p) == SubSeq(p, Len(root) + 2, Len(p))

\* Path.name
BaseName(p) == SubSeq(p, LastIndexOf(p, "/") + 1, Len(p))

\* Path.suffix
Suffix(p) ==
    LET name == BaseName(p)
        i == LastIndexOf(name, ".")
    IN  IF i <= 1 \/ i = Len(name) THEN "" ELSE SubSeq(name, i, Len(name))

---------------------------------------------------------------------------
(* scanner.py *)

should_ignore(path) == \E pattern \in IGNORE_PATTERNS : IsSubstr(pattern, path)

get_threshold(path) ==
    IF Suffix(path) = ".css" THEN THRESHOLD_css
    ELSE IF IsSubstr("backend/", path) \/ IsSubstr("worker_api/", path) THEN THRESHOLD_backend
    ELSE IF IsSubstr("frontend/", path) THEN THRESHOLD_frontend
    ELSE THRESHOLD_default

\* hashlib.sha256(content).hexdigest()[:16], taken as injective on the bytes
Sha256Hex16(bytes) == "#" \o bytes

hash_file(e) == IF e.read = "perm" THEN "" ELSE Sha256Hex16(Bytes(e))

read_content(e) == IF e.read = "ok" THEN e.text ELSE EmptyText

\* len([l for l in content.split('\n') if l.strip()])
NonBlankLines(content) ==
    Cardinality({i \in DOMAIN content.stmts : Strip(Render(content.stmts[i])) # ""})
        + content.pad

FileInfo(e) ==
    [path |-> Abs(e.path),
     lines |-> NonBlankLines(read_content(e)),
     hash |-> hash_file(e),
     threshold |-> get_threshold(Abs(e.path)),
     content |-> read_content(e)]

Scanned(e) == ~should_ignore(Abs(e.path)) /\ Suffix(Abs(e.path)) \in ANALYZE_EXTENSIONS

RECURSIVE scan_files(_)
scan_files(t) ==
    IF t = <<>> THEN <<>>
    ELSE (IF Scanned(Head(t)) THEN <<FileInfo(Head(t))>> ELSE <<>>) \o scan_files(Tail(t))

---------------------------------------------------------------------------
(* models.py *)

Violation(type, severity, file, detail) ==
    [type |-> type, severity |-> severity, file |-> file, detail |-> detail]

---------------------------------------------------------------------------
(* checks/line_count.py *)

\* mutant: the boundary taken as >=
ExceedsP1_AtLeast(lines, threshold) == 2 * lines >= 3 * threshold

\* f.lines > f.threshold * 1.5, the float product being exact for integers
ExceedsP1(lines, threshold) == 2 * lines > 3 * threshold

LineCountViolations(f) ==
    IF f.lines > f.threshold
    THEN <<Violation("lines_exceeded",
                     IF ExceedsP1(f.lines, f.threshold) THEN "P1" ELSE "P2",
                     f.path,
                     ToStr(f.lines) \o " lines (threshold: " \o ToStr(f.threshold) \o ")")>>
    ELSE <<>>

RECURSIVE check_line_counts(_)
check_line_counts(fs) ==
    IF fs = <<>> THEN <<>>
    ELSE LineCountViolations(Head(fs)) \o check_line_counts(Tail(fs))

---------------------------------------------------------------------------
(* dict / defaultdict(list): a sequence of [k, v] pairs in insertion order *)

DictHas(d, k) == \E i \in DOMAIN d : d[i].k = k

DictIndex(d, k) == CHOOSE i \in DOMAIN d : d[i].k = k

\* d.get(k, [])
DictGet(d, k) == IF DictHas(d, k) THEN d[DictIndex(d, k)].v ELSE <<>>

\* d[k] on a defaultdict(list): the key is created when missing
DictTouch(d, k) == IF DictHas(d, k) THEN d ELSE Append(d, [k |-> k, v |-> <<>>])

\* d[k].append(x)
DictAppend(d, k, x) ==
    LET t == DictTouch(d, k)
        i == DictIndex(t, k)
    IN  [t EXCEPT ![i].v = Append(@, x)]

---------------------------------------------------------------------------
(* checks/duplicates.py *)

\* mutant: files without a hash are grouped like the others
RECURSIVE hash_to_files_all(_, _)
hash_to_files_all(fs, acc) ==
    IF fs = <<>> THEN acc
    ELSE hash_to_files_all(Tail(fs), DictAppend(acc, Head(fs).hash, Head(fs).path))

\* duplicates.py 18-20
RECURSIVE hash_to_files(_, _)
hash_to_files(fs, acc) ==
    IF fs = <<>> THEN acc
    ELSE hash_to_files(Tail(fs),
                       IF Head(fs).hash # "" THEN DictAppend(acc, Head(fs).hash, Head(fs).path)
                       ELSE acc)

DuplicateFileViolation(paths) ==
    LET rel_paths == [i \in DOMAIN paths |-> RelativeTo(paths[i])]
    IN  Violation("duplicate_file", "P2", rel_paths[1],
                  "Identical to: " \o Join(", ", Tail(rel_paths)))

RECURSIVE DuplicateGroups(_)
DuplicateGroups(groups) ==
    IF groups = <<>> THEN <<>>
    ELSE (IF Len(Head(groups).v) > 1 THEN <<DuplicateFileViolation(Head(groups).v)>> ELSE <<>>)
            \o DuplicateGroups(Tail(groups))

check_duplicate_files(fs) == DuplicateGroups(hash_to_files(fs, <<>>))

---------------------------------------------------------------------------
(* The file system as resolve_import_path sees it; disk is the tree *)

IsFileOnDisk(p, disk) == \E i \in DOMAIN disk : Abs(disk[i].path) = p

IsDirOnDisk(p, disk) ==
    \/ p = "/"
    \/ StartsWith(root \o "/", p \o "/")
    \/ \E i \in DOMAIN disk : StartsWith(Abs(disk[i].path), p \o "/")

\* Path.exists()
Exists(p, disk) == IsFileOnDisk(p, disk) \/ IsDirOnDisk(p, disk)

\* Path.parent of an absolute file path
Parent(p) == LET i == LastIndexOf(p, "/") IN IF i <= 1 THEN "/" ELSE SubSeq(p, 1, i - 1)

\* Path.resolve() of an absolute path without symbolic links: "." and empty
\* segments dropped, ".." removes the segment before it
RECURSIVE NormSegs(_, _)
NormSegs(segs, acc) ==
    IF segs = <<>> THEN acc
    ELSE LET h == Head(segs)
         IN  NormSegs(Tail(segs),
                      IF h = "" \/ h = "." THEN acc
                      ELSE IF h = ".." THEN (IF acc = <<>> THEN acc ELSE SubSeq(acc, 1, Len(acc) - 1))
                      ELSE Append(acc, h))

Resolve(p) == "/" \o Join("/", NormSegs(Split(p, "/"), <<>>))

---------------------------------------------------------------------------
(* graph.py *)

ImportExtensions == <<".js", ".ts", "/index.js", "/index.ts">>

\* the first candidate str(resolved) + ext that exists, else resolved itself
WithExtension(resolved, disk) ==
    LET ok == {i \in DOMAIN ImportExtensions : Exists(resolved \o ImportExtensions[i], disk)}
    IN  IF ok = {} THEN resolved ELSE resolved \o ImportExtensions[Min(ok)]

resolve_import_path(from_file, import_path, disk) ==
    IF ~StartsWith(import_path, ".") THEN import_path
    ELSE LET base_dir == Parent(from_file)
             joined == Resolve(base_dir \o "/" \o import_path)
             resolved == IF Exists(joined, disk) THEN joined ELSE WithExtension(joined, disk)
         IN  IF StartsWith(resolved, root \o "/") THEN RelativeTo(resolved)
             ELSE IF resolved = root THEN "."
             ELSE import_path

EmptyGraph == [exports |-> <<>>, imports |-> <<>>, used_exports |-> {}, imported_by |-> <<>>]

ExportInfo(name, file, is_default) == [name |-> name, file |-> file, is_default |-> is_default]

StmtsOf(content, kind) == SelectSeq(content.stmts, LAMBDA st : st.k = kind)

\* graph.py 62-67
RECURSIVE AddNamedExports(_, _, _)
AddNamedExports(g, rel, sts) ==
    IF sts = <<>> THEN g
    ELSE AddNamedExports(
            [g EXCEPT !.exports = DictAppend(@, rel, ExportInfo(Head(sts).specs[1].n, rel, FALSE))],
            rel, Tail(sts))

\* graph.py 71-76
RECURSIVE AddDefaultExports(_, _, _, _)
AddDefaultExports(g, rel, sts, named_exports) ==
    IF sts = <<>> THEN g
    ELSE LET export_name == IF Head(sts).specs[1].n = "" THEN "default" ELSE Head(sts).specs[1].n
         IN  AddDefaultExports(
                IF export_name \notin named_exports
                THEN [g EXCEPT !.exports = DictAppend(@, rel, ExportInfo(export_name, rel, TRUE))]
                ELSE g,
                rel, Tail(sts), named_exports)

\* mutant: the local alias is taken instead of the exported name
ImportedAlias(imp) ==
    LET t == Strip(imp)
        parts == Split(t, " as ")
    IN  Strip(parts[Len(parts)])

\* graph.py 85-87: the name a specifier imports
ImportedName(imp) ==
    LET t == Strip(imp)
    IN  IF IsSubstr(" as ", t) THEN Strip(Split(t, " as ")[1]) ELSE t

\* graph.py 84-92
RECURSIVE AddSpecifiers(_, _, _, _)
AddSpecifiers(g, rel, imps, resolved) ==
    IF imps = <<>> THEN g
    ELSE LET imp == ImportedName(Head(imps))
         IN  AddSpecifiers(
                IF imp # ""
                THEN [g EXCEPT !.imports = DictAppend(@, rel, <<imp, resolved>>),
                               !.used_exports = @ \cup {<<resolved, imp>>},
                               !.imported_by = DictAppend(@, resolved, rel)]
                ELSE g,
                rel, Tail(imps), resolved)

\* graph.py 79-92
RECURSIVE AddNamedImports(_, _, _, _, _)
AddNamedImports(g, path, rel, sts, disk) ==
    IF sts = <<>> THEN g
    ELSE AddNamedImports(
            AddSpecifiers(g, rel, Split(ImportsStr(Head(sts).specs), ","),
                          resolve_import_path(path, Head(sts).from, disk)),
            path, rel, Tail(sts), disk)

\* graph.py 95-102
RECURSIVE AddDefaultImports(_, _, _, _, _)
AddDefaultImports(g, path, rel, sts, disk) ==
    IF sts = <<>> THEN g
    ELSE LET imp_name == Head(sts).specs[1].n
             resolved == resolve_import_path(path, Head(sts).from, disk)
         IN  AddDefaultImports(
                [g EXCEPT !.imports = DictAppend(@, rel, <<imp_name, resolved>>),
                          !.used_exports = @ \cup {<<resolved, "default">>, <<resolved, imp_name>>},
                          !.imported_by = DictAppend(@, resolved, rel)],
                path, rel, Tail(sts), disk)

\* graph.py 108-109: the exports of the target recorded so far become used
MarkAllUsed(g, resolved) ==
    LET exps == DictGet(g.exports, resolved)
    IN  g.used_exports \cup {<<resolved, exps[i].name>> : i \in DOMAIN exps}

\* graph.py 105-110
RECURSIVE AddAllImports(_, _, _, _, _)
AddAllImports(g, path, rel, sts, disk) ==
    IF sts = <<>> THEN g
    ELSE LET resolved == resolve_import_path(path, Head(sts).from, disk)
         IN  AddAllImports(
                [g EXCEPT !.used_exports = MarkAllUsed(g, resolved),
                          !.imported_by = DictAppend(@, resolved, rel)],
                path, rel, Tail(sts), disk)

\* graph.py 113-116
RECURSIVE AddWindowExposed(_, _, _)
AddWindowExposed(g, rel, sts) ==
    IF sts = <<>> THEN g
    ELSE AddWindowExposed(
            [g EXCEPT !.used_exports = @ \cup {<<rel, Head(sts).specs[1].n>>}],
            rel, Tail(sts))

\* graph.py 55-116: one file of the loop
GraphOfFile(g, f, disk) ==
    IF Suffix(f.path) \notin {".js", ".ts"} THEN g
    ELSE LET rel == RelativeTo(f.path)
             g1 == AddNamedExports(g, rel, StmtsOf(f.content, "exportNamed"))
             g2 == [g1 EXCEPT !.exports = DictTouch(@, rel)]
             named == {e.name : e \in Range(DictGet(g2.exports, rel))}
             g3 == AddDefaultExports(g2, rel, StmtsOf(f.content, "exportDefault"), named)
             g4 == AddNamedImports(g3, f.path, rel, StmtsOf(f.content, "importNamed"), disk)
             g5 == AddDefaultImports(g4, f.path, rel, StmtsOf(f.content, "importDefault"), disk)
             g6 == AddAllImports(g5, f.path, rel, StmtsOf(f.content, "importAll"), disk)
         IN  AddWindowExposed(g6, rel, StmtsOf(f.content, "window"))

RECURSIVE GraphFrom(_, _, _)
GraphFrom(g, fs, disk) ==
    IF fs = <<>> THEN g ELSE GraphFrom(GraphOfFile(g, Head(fs), disk), Tail(fs), disk)

build_import_graph(fs, disk) == GraphFrom(EmptyGraph, fs, disk)

---------------------------------------------------------------------------
(* checks/dead_code.py *)

\* str.isupper(): some cased character, and no lower-case one
IsUpperStr(s) ==
    /\ \E i \in 1..Len(s) : IsUpperCh(Ch(s, i))
    /\ \A i \in 1..Len(s) : ~IsLowerCh(Ch(s, i))

\* dead_code.py 45: constants are skipped
IsConstantName(name) == IsUpperStr(name) \/ (IsUpperCh(Ch(name, 1)) /\ IsSubstr("_", name))

\* the matches of \bname\b in one line, name being made of word characters
WordMatches(name, line) ==
    {i \in 1..(Len(line) - Len(name) + 1) :
        /\ SubSeq(line, i, i + Len(name) - 1) = name
        /\ (i = 1 \/ ~IsWordCh(Ch(line, i - 1)))
        /\ (i + Len(name) > Len(line) \/ ~IsWordCh(Ch(line, i + Len(name))))}

CountInLines(name, lines) ==
    Fold(LAMBDA n, ls, i : n + Cardinality(WordMatches(name, ls[i])), 0, lines, 1, Len(lines))

\* len(re.findall(rf'\b{re.escape(name)}\b', file_content))
Occurrences(name, content) == CountInLines(name, TextLines(content))

\* dead_code.py 28-35: the content of the scanned file with that relative path
FileContent(fs, file_path) ==
    LET hit == {i \in DOMAIN fs : RelativeTo(fs[i].path) = file_path}
    IN  IF hit = {} THEN EmptyText ELSE fs[Min(hit)].content

\* dead_code.py 55-59
FileImported(g, file_path) ==
    \E i \in DOMAIN g.imports : \E j \in DOMAIN g.imports[i].v :
        IsSubstr(file_path, g.imports[i].v[j][2])

\* mutant: entry points are not skipped
NoEntryPoint(file_path) == FALSE

\* dead_code.py 24-25
IsEntryPoint(file_path) == file_path \in ENTRY_POINTS

\* dead_code.py 38-68: one export of one file
DeadExport(fs, g, file_path, export) ==
    IF <<file_path, export.name>> \in g.used_exports THEN <<>>
    ELSE IF IsConstantName(export.name) THEN <<>>
    ELSE IF Occurrences(export.name, FileContent(fs, file_path)) > 1 THEN <<>>
    ELSE IF FileImported(g, file_path)
         THEN <<Violation("unused_export", "P3", file_path,
                          "Export '" \o export.name \o "' is never imported")>>
    ELSE <<>>

RECURSIVE DeadExports(_, _, _, _)
DeadExports(fs, g, file_path, exports) ==
    IF exports = <<>> THEN <<>>
    ELSE DeadExport(fs, g, file_path, Head(exports)) \o DeadExports(fs, g, file_path, Tail(exports))

RECURSIVE DeadCodeOf(_, _, _)
DeadCodeOf(fs, g, items) ==
    IF items = <<>> THEN <<>>
    ELSE (IF IsEntryPoint(Head(items).k) THEN <<>>
          ELSE DeadExports(fs, g, Head(items).k, Head(items).v))
            \o DeadCodeOf(fs, g, Tail(items))

check_dead_code(fs, g) == DeadCodeOf(fs, g, g.exports)

---------------------------------------------------------------------------
(* checks/legacy_markers.py *)

LowerCh(c) ==
    IF IsUpperCh(c) THEN Ch(LowerChars, FindFrom(UpperChars, c, 1)) ELSE c

Lower(s) == Concat(LAMBDA t, i : LowerCh(Ch(t, i)), s, 1, Len(s))

\* The patterns of LEGACY_PATTERNS that are one word between word boundaries,
\* in the order of the list (lines 21-23, 43, 44), matched ignoring case.
LEGACY_PATTERNS ==
    <<[word |-> "legacy", label |-> "legacy marker"],
      [word |-> "deprecated", label |-> "deprecated marker"],
      [word |-> "obsolete", label |-> "obsolete marker"],
      [word |-> "hack", label |-> "hack marker"],
      [word |-> "workaround", label |-> "workaround marker"]>>

\* The literal patterns of LEGACY_FILE_PATTERNS
LEGACY_FILE_LITERALS ==
    {".old.", ".bak.", ".backup.", "_old.", "_backup.", "_legacy.", "_deprecated.",
     ".orig.", ".copy."}

\* r'_v[0-9]+\.'
IsVersionedName(s) ==
    \E i \in 1..(Len(s) - 1) :
        /\ SubSeq(s, i, i + 1) = "_v"
        /\ \E j \in (i + 2)..(Len(s) - 1) :
            /\ Ch(s, j + 1) = "."
            /\ \A k \in (i + 2)..j : IsSubstr(Ch(s, k), DigitChars)

\* legacy_markers.py 100-108
IsLegacyFileName(path) ==
    LET l == Lower(path)
    IN  \/ \E pat \in LEGACY_FILE_LITERALS : IsSubstr(pat, l)
        \/ IsVersionedName(l)

\* EXCEPTION_PATTERNS r'deprecated.+since' and r'/path/to/', ignoring case
IsExceptionLine(line) ==
    LET l == Lower(line)
        d == FindFrom(l, "deprecated", 1)
    IN  \/ d > 0 /\ FindFrom(l, "since", d + Len("deprecated") + 1) > 0
        \/ IsSubstr("/path/to/", l)

\* legacy_markers.py 126-128
Context(line) ==
    LET t == Strip(line)
    IN  IF Len(t) > 80 THEN SubSeq(t, 1, 80) \o "..." ELSE t

\* mutant: the loop over the patterns goes on after a match
LegacyLine_AllPatterns(path, line_num, line) ==
    IF IsExceptionLine(line) THEN <<>>
    ELSE LET l == Lower(line)
         IN  Concat(LAMBDA ps, i :
                        IF WordMatches(ps[i].word, l) = {} THEN <<>>
                        ELSE <<Violation("legacy_marker", "P2", path,
                                         "Line " \o ToStr(line_num) \o ": "
                                           \o ps[i].label \o " - " \o Context(line))>>,
                    LEGACY_PATTERNS, 1, Len(LEGACY_PATTERNS))

\* legacy_markers.py 117-136: one line of a file
LegacyLine(path, line_num, line) ==
    IF IsExceptionLine(line) THEN <<>>
    ELSE LET l == Lower(line)
             hit == {i \in DOMAIN LEGACY_PATTERNS : WordMatches(LEGACY_PATTERNS[i].word, l) # {}}
         IN  IF hit = {} THEN <<>>
             ELSE <<Violation("legacy_marker", "P2", path,
                              "Line " \o ToStr(line_num) \o ": "
                                \o LEGACY_PATTERNS[Min(hit)].label \o " - " \o Context(line))>>

LegacyLines(path, lines, done) ==
    Concat(LAMBDA ls, i : LegacyLine(path, i, ls[i]), lines, done + 1, Len(lines))

\* legacy_markers.py 111-115: open(path, errors='ignore').readlines(); the lines
\* of plain code that pad the text match no pattern
ReadLinesIgnoringErrors(path, disk) ==
    LET hit == {i \in DOMAIN disk : Abs(disk[i].path) = path /\ disk[i].read # "perm"}
    IN  IF hit = {} THEN <<>> ELSE TextLines(disk[Min(hit)].text)

\* legacy_markers.py 96-136: one file
LegacyOfFile(f, disk) ==
    (IF IsLegacyFileName(f.path)
     THEN <<Violation("legacy_file", "P2", f.path, "File name suggests legacy/backup code")>>
     ELSE <<>>)
        \o LegacyLines(f.path, ReadLinesIgnoringErrors(f.path, disk), 0)

RECURSIVE check_legacy_markers(_, _)
check_legacy_markers(fs, disk) ==
    IF fs = <<>> THEN <<>>
    ELSE LegacyOfFile(Head(fs), disk) \o check_legacy_markers(Tail(fs), disk)

---------------------------------------------------------------------------
(* Regular expressions, matched by hand on the text *)

\* regex \s
IsSpaceCh(c) == c = " " \/ c = "\n" \/ c = "\t"

\* p occurs in s at position i
At(s, i, p) == i >= 1 /\ i + Len(p) - 1 <= Len(s) /\ SubSeq(s, i, i + Len(p) - 1) = p

\* \b before position i, where a word character stands
WordStart(s, i) == i = 1 \/ ~IsWordCh(Ch(s, i - 1))

\* pattern.finditer(s): the starts of the matches from left to right, each search
\* starting after the match before.  End(s, i) is the position of the last
\* character of the match at i, 0 without a match at i.
RECURSIVE Matches(_, _, _)
Matches(End(_, _), s, from) ==
    LET hits == {i \in from..Len(s) : End(s, i) > 0}
    IN  IF hits = {} THEN <<>>
        ELSE LET i == CHOOSE h \in hits : \A k \in from..(h - 1) : k \notin hits
             IN  <<i>> \o Matches(End, s, End(s, i) + 1)

\* the position after \s* matched from i
RECURSIVE SkipSpace(_, _)
SkipSpace(s, i) == IF i <= Len(s) /\ IsSpaceCh(Ch(s, i)) THEN SkipSpace(s, i + 1) ELSE i

\* the position after \w* matched from i
RECURSIVE SkipWord(_, _)
SkipWord(s, i) == IF i <= Len(s) /\ IsWordCh(Ch(s, i)) THEN SkipWord(s, i + 1) ELSE i

\* the position after (?:word\s+)? matched from i
SkipOptional(s, i, word) ==
    LET j == i + Len(word)
    IN  IF At(s, i, word) /\ SkipSpace(s, j) > j THEN SkipSpace(s, j) ELSE i

\* \s*\([^)]*\)\s*\{ matched from i: the position of the brace, 0 without a match
ParamsAndBrace(s, i) ==
    LET open == SkipSpace(s, i)
        close == IF At(s, open, "(") THEN FindFrom(s, ")", open + 1) ELSE 0
        brace == IF close = 0 THEN 0 ELSE SkipSpace(s, close + 1)
    IN  IF brace > 0 /\ At(s, brace, "{") THEN brace ELSE 0

NoMatch == [ok |-> FALSE, name |-> "", start |-> 0, brace |-> 0]

\* (?:export\s+)?(?:async\s+)?function\s+(\w+)\s*\([^)]*\)\s*\{ matched at i
FuncAt(s, i) ==
    LET kw == SkipOptional(s, SkipOptional(s, i, "export"), "async")
        name == SkipSpace(s, kw + Len("function"))
        after == SkipWord(s, name)
        brace == ParamsAndBrace(s, after)
    IN  IF At(s, kw, "function") /\ name > kw + Len("function") /\ after > name /\ brace > 0
        THEN [ok |-> TRUE, name |-> SubSeq(s, name, after - 1), start |-> i, brace |-> brace]
        ELSE NoMatch

\* (?:export\s+)?const\s+(\w+)\s*=\s*(?:async\s*)?\([^)]*\)\s*=>\s*\{ matched at i
ArrowAt(s, i) ==
    LET kw == SkipOptional(s, i, "export")
        name == SkipSpace(s, kw + Len("const"))
        after == SkipWord(s, name)
        eq == SkipSpace(s, after)
        rhs == SkipSpace(s, eq + 1)
        open == IF At(s, rhs, "async") THEN SkipSpace(s, rhs + Len("async")) ELSE rhs
        close == IF At(s, open, "(") THEN FindFrom(s, ")", open + 1) ELSE 0
        arrow == IF close = 0 THEN 0 ELSE SkipSpace(s, close + 1)
        brace == IF arrow > 0 /\ At(s, arrow, "=>") THEN SkipSpace(s, arrow + 2) ELSE 0
    IN  IF /\ At(s, kw, "const") /\ name > kw + Len("const") /\ after > name
           /\ At(s, eq, "=") /\ brace > 0 /\ At(s, brace, "{")
        THEN [ok |-> TRUE, name |-> SubSeq(s, name, after - 1), start |-> i, brace |-> brace]
        ELSE NoMatch

\* func_pattern.finditer(content)
FuncMatches(s) ==
    LET starts == Matches(LAMBDA t, i : FuncAt(t, i).brace, s, 1)
    IN  [k \in DOMAIN starts |-> FuncAt(s, starts[k])]

\* arrow_pattern.finditer(content)
ArrowMatches(s) ==
    LET starts == Matches(LAMBDA t, i : ArrowAt(t, i).brace, s, 1)
    IN  [k \in DOMAIN starts |-> ArrowAt(s, starts[k])]

\* content[:pos].count('\n') + 1, pos being the position before character i
LineOf(s, i) == Cardinality({k \in 1..(i - 1) : Ch(s, k) = "\n"}) + 1

---------------------------------------------------------------------------
(* checks/complexity.py *)

\* len(re.findall(r'\bkw\s*\(', code))
CountKeyword(code, kw) ==
    Cardinality({i \in 1..Len(code) :
        /\ At(code, i, kw)
        /\ WordStart(code, i)
        /\ At(code, SkipSpace(code, i + Len(kw)), "(")})

\* len(re.findall(r'\belse\s+if\s*\(', code))
CountElseIf(code) ==
    Cardinality({i \in 1..Len(code) :
        /\ At(code, i, "else")
        /\ WordStart(code, i)
        /\ LET kw == SkipSpace(code, i + Len("else"))
           IN  /\ kw > i + Len("else")
               /\ At(code, kw, "if")
               /\ At(code, SkipSpace(code, kw + Len("if")), "(")})

\* len(re.findall(r'\bcase\s+', code))
CountCase(code) ==
    Cardinality({i \in 1..Len(code) :
        /\ At(code, i, "case")
        /\ WordStart(code, i)
        /\ i + Len("case") <= Len(code)
        /\ IsSpaceCh(Ch(code, i + Len("case")))})

\* len(re.findall(r'\?\s*[^:]+\s*:', code)): a question mark, at least one
\* character that is no colon, a colon
RECURSIVE CountTernary(_, _)
CountTernary(code, from) ==
    LET q == FindFrom(code, "?", from)
        c == IF q = 0 THEN 0 ELSE FindFrom(code, ":", q + 1)
    IN  IF c = 0 THEN 0
        ELSE IF c = q + 1 THEN CountTernary(code, q + 1)
        ELSE 1 + CountTernary(code, c + 1)

\* len(re.findall(re.escape(lit), code)): matches do not overlap
RECURSIVE CountLiteral(_, _, _)
CountLiteral(code, lit, from) ==
    LET i == FindFrom(code, lit, from)
    IN  IF i = 0 THEN 0 ELSE 1 + CountLiteral(code, lit, i + Len(lit))

\* complexity.py 15-38
calculate_complexity(code) ==
    1 + CountKeyword(code, "if") + CountElseIf(code) + CountKeyword(code, "for")
      + CountKeyword(code, "while") + CountKeyword(code, "switch") + CountCase(code)
      + CountKeyword(code, "catch") + CountTernary(code, 1) + CountLiteral(code, "&&", 1)
      + CountLiteral(code, "||", 1) + CountLiteral(code, "??", 1)

\* complexity.py 65-70: one turn of the loop that looks for the closing brace;
\* the loop ends when depth is 0, end being the position after that brace
BraceStep(st, content, pos) ==
    IF st.depth = 0 THEN st
    ELSE LET depth == IF Ch(content, pos) = "{" THEN st.depth + 1
                      ELSE IF Ch(content, pos) = "}" THEN st.depth - 1
                      ELSE st.depth
         IN  [depth |-> depth, end |-> IF depth = 0 THEN pos + 1 ELSE 0]

\* mutant: a function that the end of the text cuts short ends there
CloseOf_OrEnd(content, brace) ==
    LET st == Fold(BraceStep, [depth |-> 1, end |-> 0], content, brace + 1, Len(content))
    IN  IF st.depth = 0 THEN st.end ELSE Len(content) + 1

\* complexity.py 62-72: the position after the brace that closes the one at
\* brace, 0 when the text ends first
CloseOf(content, brace) ==
    Fold(BraceStep, [depth |-> 1, end |-> 0], content, brace + 1, Len(content)).end

\* complexity.py 57-74: the functions among the matches whose braces close, each
\* as name, body (from its opening brace to its closing brace), start of the match
\* and position after the closing brace
RECURSIVE Extracted(_, _)
Extracted(content, matches) ==
    IF matches = <<>> THEN <<>>
    ELSE LET m == Head(matches)
             end == CloseOf(content, m.brace)
         IN  (IF end > 0
              THEN <<[name |-> m.name, body |-> SubSeq(content, m.brace, end - 1),
                      start |-> m.start, end |-> end]>>
              ELSE <<>>)
                \o Extracted(content, Tail(matches))

\* complexity.py 41-76
extract_functions(content) ==
    Extracted(content, FuncMatches(content)) \o Extracted(content, ArrowMatches(content))

\* mutant: the threshold itself is reported
TooComplex_AtLeast(complexity) == complexity >= COMPLEXITY_THRESHOLD

\* complexity.py 92
TooComplex(complexity) == complexity > COMPLEXITY_THRESHOLD

\* complexity.py 89-101
RECURSIVE ComplexityOf(_, _, _)
ComplexityOf(path, content, functions) ==
    IF functions = <<>> THEN <<>>
    ELSE LET fn == Head(functions)
             complexity == calculate_complexity(fn.body)
         IN  (IF TooComplex(complexity)
              THEN <<Violation("high_complexity", "P2", RelativeTo(path),
                        "Function '" \o fn.name \o "' has complexity " \o ToStr(complexity)
                        \o " (threshold: " \o ToStr(COMPLEXITY_THRESHOLD) \o ") at line "
                        \o ToStr(LineOf(content, fn.start)))>>
              ELSE <<>>)
                \o ComplexityOf(path, content, Tail(functions))

\* complexity.py 79-103
RECURSIVE check_complexity(_)
check_complexity(fs) ==
    IF fs = <<>> THEN <<>>
    ELSE (IF Suffix(Head(fs).path) \in {".js", ".ts"}
          THEN LET content == Code(Head(fs).content)
               IN  ComplexityOf(Head(fs).path, content, extract_functions(content))
          ELSE <<>>)
            \o check_complexity(Tail(fs))

---------------------------------------------------------------------------
(* checks/long_functions.py *)

\* l.strip() is empty
IsBlank(l) == \A i \in 1..Len(l) : IsSpaceCh(Ch(l, i))

\* len([l for l in text.split('\n') if l.strip()])
CountLines(text) ==
    LET ls == Split(text, "\n") IN Cardinality({i \in DOMAIN ls : ~IsBlank(ls[i])})

\* mutant: a function of exactly the threshold is reported
TooLong_AtLeast(func_lines) == func_lines >= FUNCTION_LENGTH_THRESHOLD

\* long_functions.py 58
TooLong(func_lines) == func_lines > FUNCTION_LENGTH_THRESHOLD

\* long_functions.py 37-64: the matches of one pattern whose braces close
RECURSIVE LongOf(_, _, _)
LongOf(path, content, functions) ==
    IF functions = <<>> THEN <<>>
    ELSE LET fn == Head(functions)
             func_lines == CountLines(SubSeq(content, fn.start, fn.end - 1))
         IN  (IF TooLong(func_lines)
              THEN <<Violation("long_function", "P2", RelativeTo(path),
                        "Function '" \o fn.name \o "' has " \o ToStr(func_lines)
                        \o " lines (threshold: " \o ToStr(FUNCTION_LENGTH_THRESHOLD)
                        \o ") at line " \o ToStr(LineOf(content, fn.start)))>>
              ELSE <<>>)
                \o LongOf(path, content, Tail(functions))

\* long_functions.py 14-66; the scan for the closing brace is the one of
\* extract_functions, written out a second time in the source
RECURSIVE check_long_functions(_)
check_long_functions(fs) ==
    IF fs = <<>> THEN <<>>
    ELSE (IF Suffix(Head(fs).path) \in {".js", ".ts"}
          THEN LET content == Code(Head(fs).content)
               IN  LongOf(Head(fs).path, content, extract_functions(content))
          ELSE <<>>)
            \o check_long_functions(Tail(fs))

---------------------------------------------------------------------------
(* checks/nesting.py *)

\* The back quote of a template literal.  A string of this module cannot hold the
\* character itself; the texts write it as @, which stands for nothing else.
BackQuote == "@"

\* nesting.py 30: char in ('"', "'", back quote)
IsQuoteCh(c) == c = "\"" \/ c = "'" \/ c = BackQuote

\* nesting.py 25-47: the state after one more character.  st holds max_depth,
\* max_line, current_depth, current_line, string_char ("" outside a literal)
\* and prev_char.
NestingStep(st, char) ==
    LET line == IF char = "\n" THEN st.current_line + 1 ELSE st.current_line
        toggles == IsQuoteCh(char) /\ st.prev_char # "\\"
        string_char ==
            IF ~toggles THEN st.string_char
            ELSE IF st.string_char = "" THEN char
            ELSE IF char = st.string_char THEN ""
            ELSE st.string_char
        depth ==
            IF string_char # "" THEN st.current_depth
            ELSE IF char = "{" THEN st.current_depth + 1
            ELSE IF char = "}" THEN Max({0, st.current_depth - 1})
            ELSE st.current_depth
        deeper == depth > st.max_depth
    IN  [max_depth |-> IF deeper THEN depth ELSE st.max_depth,
         max_line |-> IF deeper THEN line ELSE st.max_line,
         current_depth |-> depth,
         current_line |-> line,
         string_char |-> string_char,
         prev_char |-> char]

\* nesting.py 16-23
NestingStart ==
    [max_depth |-> 0, max_line |-> 1, current_depth |-> 0, current_line |-> 1,
     string_char |-> "", prev_char |-> ""]

\* nesting.py 25: one turn of the loop over the characters
NestingAt(st, code, i) == NestingStep(st, Ch(code, i))

\* nesting.py 14-49
calculate_max_nesting(code) ==
    LET st == Fold(NestingAt, NestingStart, code, 1, Len(code))
    IN  <<st.max_depth, st.max_line>>

\* mutant: a depth equal to the threshold is reported
TooDeep_AtLeast(max_depth) == max_depth >= NESTING_THRESHOLD

\* nesting.py 62
TooDeep(max_depth) == max_depth > NESTING_THRESHOLD

\* nesting.py 52-70
RECURSIVE check_nesting(_)
check_nesting(fs) ==
    IF fs = <<>> THEN <<>>
    ELSE (IF Suffix(Head(fs).path) \in {".js", ".ts"}
          THEN LET r == calculate_max_nesting(Code(Head(fs).content))
               IN  IF TooDeep(r[1])
                   THEN <<Violation("deep_nesting", "P2", RelativeTo(Head(fs).path),
                            "Max nesting depth " \o ToStr(r[1]) \o " (threshold: "
                            \o ToStr(NESTING_THRESHOLD) \o ") near line " \o ToStr(r[2]))>>
                   ELSE <<>>
          ELSE <<>>)
            \o check_nesting(Tail(fs))

---------------------------------------------------------------------------
(* checks/duplicates.py: check_duplicate_functions *)

\* func_pattern matched at i: the header of FuncAt, then
\* \{([^}]+(?:\{[^}]*\}[^}]*)*)\}.  The first [^}]+ runs up to the first closing
\* brace, which the final \} then matches: the body is the text between the
\* opening brace and the first closing brace after it, and is not empty.
FuncBodyAt(s, i) ==
    LET m == FuncAt(s, i)
        close == IF m.ok THEN FindFrom(s, "}", m.brace + 1) ELSE 0
    IN  IF close > m.brace + 1
        THEN [ok |-> TRUE, name |-> m.name, body |-> SubSeq(s, m.brace + 1, close - 1),
              end |-> close]
        ELSE [ok |-> FALSE, name |-> "", body |-> "", end |-> 0]

\* func_pattern.findall(content)
FuncBodies(s) ==
    LET starts == Matches(LAMBDA t, i : FuncBodyAt(t, i).end, s, 1)
    IN  [k \in DOMAIN starts |-> FuncBodyAt(s, starts[k])]

\* the position before \s* matched backwards from i
RECURSIVE SkipSpaceBack(_, _)
SkipSpaceBack(s, i) == IF i >= 1 /\ IsSpaceCh(Ch(s, i)) THEN SkipSpaceBack(s, i - 1) ELSE i

\* str.strip()
StripAll(s) == SubSeq(s, SkipSpace(s, 1), SkipSpaceBack(s, Len(s)))

\* re.sub(r'\s+', ' ', s): the first character of a run of white space becomes
\* a space, the others go
Collapse(s) ==
    Concat(LAMBDA t, i : IF ~IsSpaceCh(Ch(t, i)) THEN Ch(t, i)
                         ELSE IF i > 1 /\ IsSpaceCh(Ch(t, i - 1)) THEN ""
                         ELSE " ",
           s, 1, Len(s))

\* duplicates.py 49-50
FunctionKey(name, body) ==
    LET normalized == Collapse(StripAll(body))
    IN  name \o ":" \o SubSeq(normalized, 1, Min({200, Len(normalized)}))

\* duplicates.py 48-51: the functions of one file
RECURSIVE AddFunctions(_, _, _)
AddFunctions(acc, rel, matches) ==
    IF matches = <<>> THEN acc
    ELSE AddFunctions(
            DictAppend(acc, FunctionKey(Head(matches).name, Head(matches).body),
                       <<Head(matches).name, rel>>),
            rel, Tail(matches))

\* duplicates.py 45-51
RECURSIVE func_bodies(_, _)
func_bodies(fs, acc) ==
    IF fs = <<>> THEN acc
    ELSE func_bodies(Tail(fs),
            IF Suffix(Head(fs).path) \in {".js", ".ts"}
            THEN AddFunctions(acc, RelativeTo(Head(fs).path),
                              FuncBodies(Code(Head(fs).content)))
            ELSE acc)

\* duplicates.py 53-62
RECURSIVE DuplicateFunctionGroups(_)
DuplicateFunctionGroups(groups) ==
    IF groups = <<>> THEN <<>>
    ELSE LET occurrences == Head(groups).v
             file_list == [i \in DOMAIN occurrences |-> occurrences[i][2]]
         IN  (IF Len(occurrences) > 1
              THEN <<Violation("duplicate_function", "P2", file_list[1],
                        "Function '" \o occurrences[1][1] \o "' duplicated in: "
                        \o Join(", ", Tail(file_list)))>>
              ELSE <<>>)
                \o DuplicateFunctionGroups(Tail(groups))

\* duplicates.py 35-64
check_duplicate_functions(fs) == DuplicateFunctionGroups(func_bodies(fs, <<>>))

---------------------------------------------------------------------------
(* checks/console_leaks.py *)

CONSOLE_METHODS == <<"log", "debug", "info", "warn">>

ALLOWED_FILES ==
    {"log.js", "logger.js", "logging.js", "__main__.py", "report.py", "tracking.js",
     "handler.js", "renderer.js", "loader.js", "notifications.js", "leaderboard.js",
     "index.js"}

\* CONSOLE_PATTERN matched at i: the method, "" without a match
ConsoleAt(s, i) ==
    IF ~(At(s, i, "console.") /\ WordStart(s, i)) THEN ""
    ELSE LET at == i + Len("console.")
             hit == {k \in DOMAIN CONSOLE_METHODS :
                        /\ At(s, at, CONSOLE_METHODS[k])
                        /\ At(s, SkipSpace(s, at + Len(CONSOLE_METHODS[k])), "(")}
         IN  IF hit = {} THEN "" ELSE CONSOLE_METHODS[Min(hit)]

\* console_leaks.py 49-60
ConsoleLeaks(path, content) ==
    LET starts == Matches(LAMBDA t, i : IF ConsoleAt(t, i) = "" THEN 0 ELSE i, content, 1)
    IN  [k \in DOMAIN starts |->
            Violation("console_leak", "P3", RelativeTo(path),
                      "console." \o ConsoleAt(content, starts[k]) \o "() at line "
                      \o ToStr(LineOf(content, starts[k])))]

\* console_leaks.py 38-47
ConsoleExempt(path) ==
    \/ Suffix(path) \notin {".js", ".ts"}
    \/ \E allowed \in ALLOWED_FILES : IsSubstr(allowed, BaseName(path))
    \/ IsSubstr("test", Lower(path))

\* console_leaks.py 33-62
RECURSIVE check_console_leaks(_)
check_console_leaks(fs) ==
    IF fs = <<>> THEN <<>>
    ELSE (IF ConsoleExempt(Head(fs).path) THEN <<>>
          ELSE ConsoleLeaks(Head(fs).path, Code(Head(fs).content)))
            \o check_console_leaks(Tail(fs))

---------------------------------------------------------------------------
(* checks/todo_density.py *)

DEBT_MARKERS == <<"TODO", "FIXME", "HACK", "XXX", "BUG", "OPTIMIZE">>

\* the markers as re.IGNORECASE compares them
LowerMarkers == [k \in DOMAIN DEBT_MARKERS |-> Lower(DEBT_MARKERS[k])]

\* MARKER_PATTERN matched at i of a line in lower case: the number of the marker
\* in DEBT_MARKERS, 0 without a match
MarkerAt(l, i) ==
    LET hit == {k \in DOMAIN LowerMarkers :
                    /\ At(l, i, LowerMarkers[k])
                    /\ WordStart(l, i)
                    /\ (i + Len(LowerMarkers[k]) > Len(l)
                            \/ ~IsWordCh(Ch(l, i + Len(LowerMarkers[k]))))}
    IN  IF hit = {} THEN 0 ELSE Min(hit)

\* MARKER_PATTERN.findall(line), ignoring case: the markers from left to right,
\* in upper case
LineMarkers(line) ==
    LET l == Lower(line)
    IN  IF \A k \in DOMAIN LowerMarkers : ~IsSubstr(LowerMarkers[k], l) THEN <<>>
        ELSE LET starts == Matches(LAMBDA t, i : IF MarkerAt(t, i) = 0 THEN 0
                                                 ELSE i + Len(DEBT_MARKERS[MarkerAt(t, i)]) - 1,
                                   l, 1)
             IN  [k \in DOMAIN starts |-> DEBT_MARKERS[MarkerAt(l, starts[k])]]

\* todo_density.py 31-34
FileMarkers(lines) ==
    Concat(LAMBDA ls, n : LET found == LineMarkers(ls[n])
                          IN  [k \in DOMAIN found |-> [marker |-> found[k], line |-> n]],
           lines, 1, Len(lines))

\* todo_density.py 38-48
TodoDensity(rel, markers) ==
    LET shown == SubSeq(markers, 1, Min({5, Len(markers)}))
        marker_summary ==
            Join(", ", [k \in DOMAIN shown |->
                            shown[k].marker \o " (line " \o ToStr(shown[k].line) \o ")"])
            \o (IF Len(markers) > 5 THEN " ... and " \o ToStr(Len(markers) - 5) \o " more"
                ELSE "")
    IN  IF Len(markers) >= 3
        THEN <<Violation("todo_density", "P3", rel,
                         ToStr(Len(markers)) \o " debt markers: " \o marker_summary)>>
        ELSE <<>>

\* todo_density.py 19-50: a file's markers are collected under its relative path,
\* one entry of the dict per file
RECURSIVE check_todo_density(_)
check_todo_density(fs) ==
    IF fs = <<>> THEN <<>>
    ELSE (IF Suffix(Head(fs).path) \in {".js", ".ts", ".py"}
          THEN TodoDensity(RelativeTo(Head(fs).path), FileMarkers(TextLines(Head(fs).content)))
          ELSE <<>>)
            \o check_todo_density(Tail(fs))

---------------------------------------------------------------------------
(* checks/commented_code.py *)

EndsWith(s, p) == Len(p) <= Len(s) /\ SubSeq(s, Len(s) - Len(p) + 1, Len(s)) = p

\* The first lines of a file are skipped as its header (commented_code.py 29)
HEADER_LINES == 25

\* commented_code.py 44-48
IsCommentLine(stripped) ==
    StartsWith(stripped, "//") \/ StartsWith(stripped, "#") \/ StartsWith(stripped, "/*")

\* commented_code.py 51-59
IsDocLine(stripped) ==
    \/ StartsWith(stripped, "///")
    \/ StartsWith(stripped, "# -")
    \/ IsSubstr("@param", stripped)
    \/ IsSubstr("@returns", stripped)
    \/ IsSubstr("@type", stripped)
    \/ LET l == Lower(stripped) IN IsSubstr("license", l) \/ IsSubstr("copyright", l)

\* mutant: a run must be longer than the threshold
IsBlock_Above(consecutive_comments) == consecutive_comments > COMMENTED_BLOCK_THRESHOLD

\* commented_code.py 66, 76
IsBlock(consecutive_comments) == consecutive_comments >= COMMENTED_BLOCK_THRESHOLD

CommentedBlock(path, st) ==
    IF IsBlock(st.consecutive_comments)
    THEN <<Violation("commented_block", "P3", RelativeTo(path),
                     ToStr(st.consecutive_comments)
                     \o " consecutive comment lines starting at line " \o ToStr(st.block_start))>>
    ELSE <<>>

\* commented_code.py 27-73: the loop's state after one more line, i counted from 0
CommentStep(path, st, i, line) ==
    LET stripped == StripAll(line)
    IN  IF i < HEADER_LINES THEN st
        ELSE IF StartsWith(stripped, "/**") THEN [st EXCEPT !.in_jsdoc = TRUE]
        ELSE IF st.in_jsdoc
             THEN [st EXCEPT !.in_jsdoc = ~EndsWith(stripped, "*/")]
        ELSE IF IsCommentLine(stripped) /\ ~IsDocLine(stripped)
             THEN [st EXCEPT !.consecutive_comments = @ + 1,
                             !.block_start = IF st.consecutive_comments = 0 THEN i + 1 ELSE @]
        ELSE [st EXCEPT !.consecutive_comments = 0,
                        !.violations = @ \o CommentedBlock(path, st)]

\* commented_code.py 23-27
CommentStart ==
    [consecutive_comments |-> 0, block_start |-> 0, in_jsdoc |-> FALSE, violations |-> <<>>]

\* commented_code.py 27: the loop over the lines
CommentScan(path, lines) ==
    Fold(LAMBDA st, ls, n : CommentStep(path, st, n - 1, ls[n]), CommentStart, lines, 1, Len(lines))

\* content.split('\n') as far as the loop can tell the lines apart: the padding
\* lines are lines of code, and after the first of them the loop's state no
\* longer changes
CommentLines(content) ==
    TextLines(content) \o (IF content.pad > 0 THEN <<"0;">> ELSE <<>>)

\* commented_code.py 18-82: one file
CommentedOfFile(f) ==
    LET lines == CommentLines(f.content)
        st == CommentScan(f.path, lines)
    IN  st.violations \o CommentedBlock(f.path, st)

\* commented_code.py 14-84
RECURSIVE check_commented_code(_)
check_commented_code(fs) ==
    IF fs = <<>> THEN <<>>
    ELSE (IF Suffix(Head(fs).path) \in {".js", ".ts", ".py"} THEN CommentedOfFile(Head(fs))
          ELSE <<>>)
            \o check_commented_code(Tail(fs))

---------------------------------------------------------------------------
(* checks/empty_catch.py *)

\* catch\s*\([^)]*\)\s*\{\s* matched at i: the position after it, 0 without a match
CatchOpenAt(s, i) ==
    LET brace == IF At(s, i, "catch") THEN ParamsAndBrace(s, i + Len("catch")) ELSE 0
    IN  IF brace = 0 THEN 0 ELSE SkipSpace(s, brace + 1)

\* the position of the line break at or after p, Len(s) + 1 on the last line
LineEnd(s, p) == LET e == FindFrom(s, "\n", p) IN IF e = 0 THEN Len(s) + 1 ELSE e

\* //[^\n]*\s*\} matched at p: the position of the brace, 0 without a match.
\* The comment runs to the end of the line and the brace follows the white space
\* after it; failing that, the comment is cut short before the last closing
\* brace of its own line.
LineCommentClose(s, p) ==
    LET e == LineEnd(s, p + 2)
        after == SkipSpace(s, e)
    IN  IF At(s, after, "}") THEN after
        ELSE Max({0} \cup {k \in (p + 2)..(e - 1) : Ch(s, k) = "}"})

\* /\*[^*]*\*/\s*\} matched at p: the position of the brace, 0 without a match
BlockCommentClose(s, p) ==
    LET star == FindFrom(s, "*", p + 2)
        after == IF star > 0 /\ At(s, star, "*/") THEN SkipSpace(s, star + 2) ELSE 0
    IN  IF after > 0 /\ At(s, after, "}") THEN after ELSE 0

\* EMPTY_CATCH_PATTERN matched at i: the position of its last character, 0 without
EmptyCatchAt(s, i) ==
    LET p == CatchOpenAt(s, i)
    IN  IF p = 0 THEN 0
        ELSE IF At(s, p, "}") THEN p
        ELSE IF At(s, p, "//") THEN LineCommentClose(s, p)
        ELSE 0

\* COMMENT_ONLY_CATCH matched at i: the position of its last character, 0 without
CommentOnlyCatchAt(s, i) ==
    LET p == CatchOpenAt(s, i)
    IN  IF p = 0 THEN 0
        ELSE IF At(s, p, "/*") THEN BlockCommentClose(s, p)
        ELSE IF At(s, p, "//") THEN LineCommentClose(s, p)
        ELSE 0

\* EMPTY_CATCH_PATTERN.finditer(content): the starts of the matches
EmptyCatches(s) == Matches(EmptyCatchAt, s, 1)

\* COMMENT_ONLY_CATCH.finditer(content): the starts of the matches
CommentOnlyCatches(s) == Matches(CommentOnlyCatchAt, s, 1)

\* empty_catch.py 36-44
RECURSIVE EmptyCatchViolations(_, _, _)
EmptyCatchViolations(rel, content, starts) ==
    IF starts = <<>> THEN <<>>
    ELSE <<Violation("empty_catch", "P2", rel,
                     "Empty catch block at line " \o ToStr(LineOf(content, Head(starts)))
                     \o " - errors silently swallowed")>>
            \o EmptyCatchViolations(rel, content, Tail(starts))

\* empty_catch.py 50-54
AlreadyReported(vs, rel, line_num) ==
    \E k \in DOMAIN vs :
        vs[k].file = rel /\ IsSubstr("line " \o ToStr(line_num), vs[k].detail)

\* empty_catch.py 47-62: one match of COMMENT_ONLY_CATCH; st holds the list of the
\* check so far
CommentOnlyStep(st, starts, k) ==
    LET line_num == LineOf(st.content, starts[k])
    IN  IF AlreadyReported(st.vs, st.rel, line_num) THEN st
        ELSE [st EXCEPT !.vs = Append(@, Violation("empty_catch", "P2", st.rel,
                            "Catch block with only comment at line " \o ToStr(line_num)))]

\* empty_catch.py 47-62
CommentOnlyViolations(vs, rel, content, starts) ==
    Fold(CommentOnlyStep, [vs |-> vs, rel |-> rel, content |-> content],
         starts, 1, Len(starts)).vs

\* empty_catch.py 30-62: one file
EmptyCatchOfFile(vs, f) ==
    LET rel == RelativeTo(f.path)
        content == Code(f.content)
    IN  CommentOnlyViolations(
            vs \o EmptyCatchViolations(rel, content, EmptyCatches(content)),
            rel, content, CommentOnlyCatches(content))

RECURSIVE EmptyCatchFrom(_, _)
EmptyCatchFrom(vs, fs) ==
    IF fs = <<>> THEN vs
    ELSE EmptyCatchFrom(
            IF Suffix(Head(fs).path) \in {".js", ".ts"} THEN EmptyCatchOfFile(vs, Head(fs))
            ELSE vs,
            Tail(fs))

\* empty_catch.py 26-64
check_empty_catch(fs) == EmptyCatchFrom(<<>>, fs)

---------------------------------------------------------------------------
(* checks/coupling.py *)

\* coupling.py 16-21; a string that ends with exc contains it
matches_exception(file_path, exceptions) ==
    \E exc \in exceptions : EndsWith(file_path, exc) \/ IsSubstr(exc, file_path)

\* mutant: every source that is no relative path of the tree is left out
CountedSource_Internal(source) ==
    ~StartsWith(source, "node_modules") /\ IsSubstr("/", source)

\* coupling.py 38: the sources that count toward a file's coupling
CountedSource(source) == ~StartsWith(source, "node_modules")

\* coupling.py 33-46
RECURSIVE HighCoupling(_)
HighCoupling(items) ==
    IF items = <<>> THEN <<>>
    ELSE LET file_path == Head(items).k
             imports == Head(items).v
             unique_sources == {imports[i][2] : i \in {j \in DOMAIN imports :
                                                        CountedSource(imports[j][2])}}
         IN  (IF ~matches_exception(file_path, COUPLING_EXCEPTIONS)
                 /\ Cardinality(unique_sources) > COUPLING_THRESHOLD
              THEN <<Violation("high_coupling", "P3", file_path,
                        "Imports from " \o ToStr(Cardinality(unique_sources))
                        \o " different files (threshold: " \o ToStr(COUPLING_THRESHOLD) \o ")")>>
              ELSE <<>>)
                \o HighCoupling(Tail(items))

\* coupling.py 49-62
RECURSIVE GodFiles(_)
GodFiles(items) ==
    IF items = <<>> THEN <<>>
    ELSE LET file_path == Head(items).k
             unique_importers == Range(Head(items).v)
         IN  (IF ~matches_exception(file_path, GOD_FILE_EXCEPTIONS)
                 /\ Cardinality(unique_importers) > GOD_FILE_THRESHOLD
              THEN <<Violation("god_file", "P3", file_path,
                        "Imported by " \o ToStr(Cardinality(unique_importers))
                        \o " files (threshold: " \o ToStr(GOD_FILE_THRESHOLD) \o ")")>>
              ELSE <<>>)
                \o GodFiles(Tail(items))

\* coupling.py 24-64
check_coupling(fs, g) == HighCoupling(g.imports) \o GodFiles(g.imported_by)

---------------------------------------------------------------------------
(* report.py.  A text is the sequence of its lines.  The pictographs the     *)
(* program prints are written as words: (red), (yellow), (blue) for the      *)
(* marks of the severities, and left out elsewhere.                          *)

\* mutant: the kinds of violation of a severity are counted, not the violations
Tally_ByType(vs, severity) ==
    Cardinality({vs[i].type : i \in {j \in DOMAIN vs : vs[j].severity = severity}})

\* report.py 71-73: len([v for v in violations if v.severity == severity])
Tally(vs, severity) == Cardinality({i \in DOMAIN vs : vs[i].severity = severity})

\* report.py 67
Icon(severity) ==
    IF severity = "P1" THEN "(red)" ELSE IF severity = "P2" THEN "(yellow)" ELSE "(blue)"

\* report.py 66-69
RECURSIVE SummaryEntries(_)
SummaryEntries(vs) ==
    IF vs = <<>> THEN <<>>
    ELSE <<"  " \o Icon(Head(vs).severity) \o " [" \o Head(vs).type \o "] " \o Head(vs).file,
           "     " \o Head(vs).detail>>
            \o SummaryEntries(Tail(vs))

\* report.py 58-74
print_summary(vs) ==
    IF vs = <<>> THEN <<"", "All entropy checks passed!">>
    ELSE <<"", "Found " \o ToStr(Len(vs)) \o " violations:", "">>
            \o SummaryEntries(vs)
            \o <<"", "Summary: " \o ToStr(Tally(vs, "P1")) \o " P1, " \o ToStr(Tally(vs, "P2"))
                     \o " P2, " \o ToStr(Tally(vs, "P3")) \o " P3">>

\* report.py 34-36: the violations grouped by type, the types in the order of
\* their first violation
RECURSIVE by_type(_, _)
by_type(vs, acc) ==
    IF vs = <<>> THEN acc ELSE by_type(Tail(vs), DictAppend(acc, Head(vs).type, Head(vs)))

\* str.title() of a type with its underscores turned into spaces
RECURSIVE Title(_, _)
Title(s, start) ==
    IF s = "" THEN ""
    ELSE LET c == Ch(s, 1)
         IN  (IF c = "_" THEN " "
              ELSE IF start /\ IsLowerCh(c) THEN Ch(UpperChars, FindFrom(LowerChars, c, 1))
              ELSE c)
                \o Title(SubSeq(s, 2, Len(s)), c = "_")

\* report.py 43-44
Rows(type_violations) ==
    [i \in DOMAIN type_violations |->
        "| " \o type_violations[i].severity \o " | " \o BackQuote \o type_violations[i].file
        \o BackQuote \o " | " \o type_violations[i].detail \o " |"]

\* report.py 38-45
RECURSIVE Sections(_)
Sections(groups) ==
    IF groups = <<>> THEN <<>>
    ELSE <<"## " \o Title(Head(groups).k, TRUE), "",
           "| Severity | File | Detail |", "|----------|------|--------|">>
            \o Rows(Head(groups).v) \o <<"">> \o Sections(Tail(groups))

\* sum(len(x) for x in d.values())
RECURSIVE TotalLen(_)
TotalLen(d) == IF d = <<>> THEN 0 ELSE Len(Head(d).v) + TotalLen(Tail(d))

\* report.py 13-55
generate_markdown_report(root_path, fs, vs, g) ==
    LET head == <<"# Entropy Check Report", "",
                  "**Path:** " \o BackQuote \o root_path \o BackQuote,
                  "**Files analyzed:** " \o ToStr(Len(fs)),
                  "**Violations:** " \o ToStr(Len(vs)), "">>
    IN  IF vs = <<>> THEN Append(head, "**All checks passed!**")
        ELSE head \o Sections(by_type(vs, <<>>))
                \o <<"## Import Graph Stats", "",
                     "- **Total exports:** " \o ToStr(TotalLen(g.exports)),
                     "- **Total imports:** " \o ToStr(TotalLen(g.imports)),
                     "- **Used exports:** " \o ToStr(Cardinality(g.used_exports)),
                     "">>

---------------------------------------------------------------------------
(* __main__.py and EntropyChecker.  One action per step of main() and of     *)
(* run_all_checks: the scan, the line-count, duplicate-file, dead-code and   *)
(* legacy-marker checks and the construction of the import graph, each at    *)
(* the place run_all_checks gives it.                                        *)

\* __init__.py 109
Clean(vs) == Len(vs) = 0

\* mutant: the status does not depend on the result
ExitStatusZero(ok) == 0

\* __main__.py 44
ExitStatus(ok) == IF ok THEN 0 ELSE 1

\* mutant: the path is not looked at
RootMissing_Never(exists) == FALSE

\* __main__.py 27: not root.exists()
RootMissing(exists) == ~exists

\* __main__.py 27-29: the path does not exist; main() says so and exits
MissingPath ==
    /\ pc = "start"
    /\ RootMissing(rootExists)
    /\ output' = "error"
    /\ printed' = Append(printed, "Path not found: " \o root)
    /\ exitCode' = 1
    /\ pc' = "done"
    /\ UNCHANGED <<root, rootExists, tree, files, violations, graph, passed, trace, runs, firstRun>>

\* __main__.py 31-32: main() builds the checker and calls run_all_checks
Start ==
    /\ pc = "start"
    /\ ~RootMissing(rootExists)
    /\ pc' = "scan"
    /\ UNCHANGED <<root, rootExists, tree, files, violations, graph, passed, output, printed, trace,
                   exitCode, runs, firstRun>>

\* __init__.py 63-107: the steps of run_all_checks, in the order of its text
RUN_ORDER ==
    <<"scan", "line_counts", "duplicate_files", "duplicate_functions", "import_graph",
      "dead_code", "complexity", "nesting", "long_functions", "console_leaks",
      "commented_code", "todo_density", "empty_catch", "coupling", "legacy_markers">>

\* the position run_all_checks reaches after a step
Following(step) ==
    LET i == CHOOSE k \in DOMAIN RUN_ORDER : RUN_ORDER[k] = step
    IN  IF i = Len(RUN_ORDER) THEN "return" ELSE RUN_ORDER[i + 1]

\* what run_all_checks prints before a step
Progress(step) ==
    CASE step = "scan" -> "Scanning files..."
      [] step = "line_counts" -> "Checking line counts..."
      [] step = "duplicate_files" -> "Checking duplicate files..."
      [] step = "duplicate_functions" -> "Checking duplicate functions..."
      [] step = "import_graph" -> "Building import graph..."
      [] step = "dead_code" -> "Checking dead code..."
      [] step = "complexity" -> "Checking cyclomatic complexity..."
      [] step = "nesting" -> "Checking nesting depth..."
      [] step = "long_functions" -> "Checking function lengths..."
      [] step = "console_leaks" -> "Checking console leaks..."
      [] step = "commented_code" -> "Checking commented code blocks..."
      [] step = "todo_density" -> "Checking TODO density..."
      [] step = "empty_catch" -> "Checking empty catch blocks..."
      [] step = "coupling" -> "Checking coupling..."
      [] step = "legacy_markers" -> "Checking legacy markers..."

\* mutant: the coupling check is skipped once another check has found something
CheckOutput_ReadsList(check, fs, g, disk) ==
    CASE check = "line_counts" -> check_line_counts(fs)
      [] check = "duplicate_files" -> check_duplicate_files(fs)
      [] check = "duplicate_functions" -> check_duplicate_functions(fs)
      [] check = "dead_code" -> check_dead_code(fs, g)
      [] check = "complexity" -> check_complexity(fs)
      [] check = "nesting" -> check_nesting(fs)
      [] check = "long_functions" -> check_long_functions(fs)
      [] check = "console_leaks" -> check_console_leaks(fs)
      [] check = "commented_code" -> check_commented_code(fs)
      [] check = "todo_density" -> check_todo_density(fs)
      [] check = "empty_catch" -> check_empty_catch(fs)
      [] check = "coupling" -> IF violations = <<>> THEN check_coupling(fs, g) ELSE <<>>
      [] check = "legacy_markers" -> check_legacy_markers(fs, disk)

\* __init__.py 68-107: the call each check step makes, with the arguments
\* run_all_checks passes
CheckOutput(check, fs, g, disk) ==
    CASE check = "line_counts" -> check_line_counts(fs)
      [] check = "duplicate_files" -> check_duplicate_files(fs)
      [] check = "duplicate_functions" -> check_duplicate_functions(fs)
      [] check = "dead_code" -> check_dead_code(fs, g)
      [] check = "complexity" -> check_complexity(fs)
      [] check = "nesting" -> check_nesting(fs)
      [] check = "long_functions" -> check_long_functions(fs)
      [] check = "console_leaks" -> check_console_leaks(fs)
      [] check = "commented_code" -> check_commented_code(fs)
      [] check = "todo_density" -> check_todo_density(fs)
      [] check = "empty_catch" -> check_empty_catch(fs)
      [] check = "coupling" -> check_coupling(fs, g)
      [] check = "legacy_markers" -> check_legacy_markers(fs, disk)

\* __init__.py 63-65
ScanFiles ==
    /\ pc = "scan"
    /\ files' = scan_files(tree)
    /\ printed' = printed \o <<Progress("scan"),
                               "   Found " \o ToStr(Len(files')) \o " files to analyze">>
    /\ trace' = Append(trace, "scan")
    /\ pc' = Following("scan")
    /\ UNCHANGED <<root, rootExists, tree, violations, graph, passed, output, exitCode, runs, firstRun>>

\* self.violations.extend(check(...)), after the line that announces the check
RunCheck(check, out, then) ==
    /\ printed' = Append(printed, Progress(check))
    /\ violations' = violations \o out
    /\ trace' = Append(trace, check)
    /\ pc' = then
    /\ UNCHANGED <<root, rootExists, tree, files, graph, passed, output, exitCode, runs, firstRun>>

\* __init__.py 67-68
CheckLineCounts ==
    /\ pc = "line_counts"
    /\ RunCheck("line_counts", check_line_counts(files), Following("line_counts"))

\* __init__.py 70-71
CheckDuplicateFiles ==
    /\ pc = "duplicate_files"
    /\ RunCheck("duplicate_files", check_duplicate_files(files), Following("duplicate_files"))

\* __init__.py 73-74
CheckDuplicateFunctions ==
    /\ pc = "duplicate_functions"
    /\ RunCheck("duplicate_functions", check_duplicate_functions(files), Following("duplicate_functions"))

\* __init__.py 76-77
BuildImportGraph ==
    /\ pc = "import_graph"
    /\ printed' = Append(printed, Progress("import_graph"))
    /\ graph' = build_import_graph(files, tree)
    /\ trace' = Append(trace, "import_graph")
    /\ pc' = Following("import_graph")
    /\ UNCHANGED <<root, rootExists, tree, files, violations, passed, output, exitCode, runs, firstRun>>

\* __init__.py 79-80
CheckDeadCode ==
    /\ pc = "dead_code"
    /\ RunCheck("dead_code", check_dead_code(files, graph), Following("dead_code"))

\* __init__.py 82-83
CheckComplexity ==
    /\ pc = "complexity"
    /\ RunCheck("complexity", check_complexity(files), Following("complexity"))

\* __init__.py 85-86
CheckNesting ==
    /\ pc = "nesting"
    /\ RunCheck("nesting", check_nesting(files), Following("nesting"))

\* __init__.py 88-89
CheckLongFunctions ==
    /\ pc = "long_functions"
    /\ RunCheck("long_functions", check_long_functions(files), Following("long_functions"))

\* __init__.py 91-92
CheckConsoleLeaks ==
    /\ pc = "console_leaks"
    /\ RunCheck("console_leaks", check_console_leaks(files), Following("console_leaks"))

\* __init__.py 94-95
CheckCommentedCode ==
    /\ pc = "commented_code"
    /\ RunCheck("commented_code", check_commented_code(files), Following("commented_code"))

\* __init__.py 97-98
CheckTodoDensity ==
    /\ pc = "todo_density"
    /\ RunCheck("todo_density", check_todo_density(files), Following("todo_density"))

\* __init__.py 100-101
CheckEmptyCatch ==
    /\ pc = "empty_catch"
    /\ RunCheck("empty_catch", check_empty_catch(files), Following("empty_catch"))

\* __init__.py 103-104
CheckCoupling ==
    /\ pc = "coupling"
    /\ RunCheck("coupling", check_coupling(files, graph), Following("coupling"))

\* __init__.py 106-107
CheckLegacyMarkers ==
    /\ pc = "legacy_markers"
    /\ RunCheck("legacy_markers", check_legacy_markers(files, tree), Following("legacy_markers"))

\* __init__.py 109
Return ==
    /\ pc = "return"
    /\ passed' = <<Clean(violations)>>
    /\ runs' = runs + 1
    /\ firstRun' = IF runs = 0 THEN violations ELSE firstRun
    /\ pc' = "returned"
    /\ UNCHANGED <<root, rootExists, tree, files, violations, graph, output, printed, trace, exitCode>>

\* __main__.py 34-40: --report
GetReport ==
    /\ pc = "returned" /\ runs = 1
    /\ output' = "report"
    /\ printed' = printed \o <<"">> \o generate_markdown_report(root, files, violations, graph)
    /\ pc' = "exit"
    /\ UNCHANGED <<root, rootExists, tree, files, violations, graph, passed, trace, exitCode, runs,
                   firstRun>>

\* __main__.py 41-42
PrintSummary ==
    /\ pc = "returned" /\ runs = 1
    /\ output' = "summary"
    /\ printed' = printed \o print_summary(violations)
    /\ pc' = "exit"
    /\ UNCHANGED <<root, rootExists, tree, files, violations, graph, passed, trace, exitCode, runs,
                   firstRun>>

\* __main__.py 44
Exit ==
    /\ pc = "exit"
    /\ exitCode' = ExitStatus(passed[1])
    /\ pc' = "done"
    /\ UNCHANGED <<root, rootExists, tree, files, violations, graph, passed, output, printed, trace,
                   runs, firstRun>>

\* A caller of the EntropyChecker class calls run_all_checks again on the same object
CallAgain ==
    /\ pc = "returned" /\ runs < MaxRuns
    /\ trace' = <<>>
    /\ pc' = "scan"
    /\ UNCHANGED <<root, rootExists, tree, files, violations, graph, passed, output, printed, exitCode,
                   runs, firstRun>>

---------------------------------------------------------------------------
(* The file trees the analyser is run on *)

Trees(menu) ==
    {t \in UNION {[1..n -> menu] : n \in 0..MaxFiles} :
        \A i, j \in DOMAIN t : i # j => t[i].path # t[j].path}

\* files at and around their line thresholds
SizedFiles ==
    {Entry("backend/a.js", "ok", Text(<<Blank>>, n)) : n \in {500, 501, 750, 751}}
    \cup {Entry("frontend/b.js", "ok", Text(<<Blank>>, n)) : n \in {300, 301, 450, 451}}
    \cup {Entry("s.css", "ok", Text(<<Blank>>, n)) : n \in {600, 601, 900, 901}}

\* equal and different contents, readable and not, scanned and not
NotedText == Text(<<Comment("legacy handler")>>, 1)
PlainText == Text(<<Blank>>, 2)

CopiedFiles ==
    {Entry(p, r, NotedText) : p \in {"a.js", "b.js", "c_old.js"}, r \in {"ok", "perm", "enc"}}
    \cup {Entry(p, "ok", PlainText) : p \in {"a.js", "b.js", "c_old.js"}}
    \cup {Entry("dist/d.js", "ok", NotedText), Entry("n.md", "ok", NotedText)}

\* modules that export and import
ModuleFiles ==
    {Entry("util.js", "ok", Text(sts, 0)) :
        sts \in {<<ExportNamed("helper")>>,
                 <<ExportNamed("helper"), ExportNamed("other")>>,
                 <<ExportNamed("helper"), Use("helper")>>,
                 <<ExportNamed("MAX_SIZE"), ExportDefault("")>>}}
    \cup {Entry("lib/util.js", "ok", Text(<<ExportNamed("helper"), ExportNamed("other")>>, 0))}
    \cup {Entry("index.js", "ok", Text(sts, 0)) :
        sts \in {<<ExportNamed("helper")>>,
                 <<ImportNamed(<<Name("other")>>, "./util")>>}}
    \cup {Entry("main.js", "ok", Text(sts, 0)) :
        sts \in {<<ImportNamed(<<Name("other")>>, "./util")>>,
                 <<ImportNamed(<<Alias("other", "o"), Name("helper")>>, "./lib/util")>>,
                 <<ImportAll("U", "./util")>>,
                 <<ImportNamed(<<Name("other")>>, "./index")>>,
                 <<ImportNamed(<<Name("useState")>>, "react")>>,
                 <<ImportDefault("u", "./util.js"), Window("u")>>}}

\* what does not depend on the tree: a path that does not exist has nothing under it
InitAt(roots, trees) ==
    /\ root \in roots
    /\ \/ rootExists = TRUE /\ tree \in trees
       \/ rootExists = FALSE /\ tree = <<>>
    /\ pc = "start"
    /\ files = <<>>
    /\ violations = <<>>
    /\ graph = EmptyGraph
    /\ passed = <<>>
    /\ output = ""
    /\ printed = <<>>
    /\ trace = <<>>
    /\ exitCode = -1
    /\ runs = 0
    /\ firstRun = <<>>

\* a root whose path holds none of the IGNORE_PATTERNS
PlainRoot == "/r"

InitOn(trees) == InitAt({PlainRoot}, trees)

Init == InitOn(Trees(SizedFiles) \cup Trees(CopiedFiles) \cup Trees(ModuleFiles))

Next ==
    \/ MissingPath
    \/ Start
    \/ ScanFiles
    \/ CheckLineCounts
    \/ CheckDuplicateFiles
    \/ CheckDuplicateFunctions
    \/ BuildImportGraph
    \/ CheckDeadCode
    \/ CheckComplexity
    \/ CheckNesting
    \/ CheckLongFunctions
    \/ CheckConsoleLeaks
    \/ CheckCommentedCode
    \/ CheckTodoDensity
    \/ CheckEmptyCatch
    \/ CheckCoupling
    \/ CheckLegacyMarkers
    \/ Return
    \/ GetReport
    \/ PrintSummary
    \/ Exit
    \/ CallAgain

Spec == Init /\ [][Next]_vars

\* n lines, each the given one
Repeat(line, n) == [i \in 1..n |-> line]

\* a function of the given name whose body is the given lines
Function(name, body) ==
    <<Line("function " \o name \o "() {")>> \o [i \in DOMAIN body |-> Line(body[i])] \o <<Line("}")>>

\* the lines the bodies are made of, each with the number of decision points
\* DECISION_PATTERNS finds in it
BranchLines ==
    <<[line |-> "if (a) b();", decisions |-> 1],
      [line |-> "else if (a) b();", decisions |-> 2],
      [line |-> "for (;;) while (a) b();", decisions |-> 2],
      [line |-> "switch (a) { case 1: break; }", decisions |-> 2],
      [line |-> "try { a(); } catch (e) { b(); }", decisions |-> 1],
      [line |-> "x = a ? b : c;", decisions |-> 1],
      [line |-> "x = a && b || c ?? d;", decisions |-> 3],
      [line |-> "notif (a); verify(b); x = y:z;", decisions |-> 0]>>

PlainIf == BranchLines[1].line

\* function bodies at and around the complexity threshold: plain ifs alone, and
\* plain ifs followed by one line of another kind
BranchyBodies ==
    {Repeat(PlainIf, n) : n \in {COMPLEXITY_THRESHOLD - 1, COMPLEXITY_THRESHOLD,
                                 COMPLEXITY_THRESHOLD + 1}}
    \cup {Append(Repeat(PlainIf, COMPLEXITY_THRESHOLD - 2), BranchLines[k].line) :
            k \in 2..Len(BranchLines)}

BranchyFiles ==
    {Entry("m.js", "ok", Text(Function("f", b), 0)) : b \in BranchyBodies}
    \cup {Entry("lib/n.ts", "ok", Text(<<Comment("n")>> \o Function("g", b), 1)) :
            b \in BranchyBodies}

InitComplexity == InitOn(Trees(BranchyFiles))

\* the analyser run on files whose functions are at and around the complexity
\* threshold
SpecComplexity == InitComplexity /\ [][Next]_vars

\* the first lines of a function whose closing brace is missing
Unclosed(header, body) == <<Line(header)>> \o [i \in DOMAIN body |-> Line(body[i])]

\* the headers of the functions left open: a declaration and an arrow function
OpenHeaders == {"function u() {", "const u = async (a) => {"}

\* a body that is both too complex and, with its header, too long
HeavyBody == Repeat(PlainIf, COMPLEXITY_THRESHOLD + 1) \o Repeat("a();", FUNCTION_LENGTH_THRESHOLD - 16)

\* bodies of closed functions: too complex, too long, neither
ClosedBodies ==
    {Repeat(PlainIf, COMPLEXITY_THRESHOLD + 1), Repeat("a();", FUNCTION_LENGTH_THRESHOLD - 1),
     Repeat("a();", 2)}

\* files with a function that the end of the file cuts short, before or after a
\* function that is closed
CutFiles ==
    {Entry("m.js", "ok", Text(Unclosed(h, HeavyBody) \o Function("f", b), 0)) :
        h \in OpenHeaders, b \in ClosedBodies}
    \cup {Entry("m.js", "ok", Text(Function("f", b) \o Unclosed(h, HeavyBody), 0)) :
        h \in OpenHeaders, b \in ClosedBodies}
    \cup {Entry("lib/n.ts", "ok", Text(Function("u", HeavyBody), 0)),
          Entry("lib/n.ts", "ok", Text(Unclosed("function u() {", HeavyBody), 0))}

InitCut == InitOn(Trees(CutFiles))

\* the analyser run on files that end inside a function
SpecCut == InitCut /\ [][Next]_vars

\* the characters the nesting scan tells apart: braces, quotes, the backslash
NestingAlphabet == {"{", "}", "\"", "'", "\\"}

\* the longest text of characters the nesting scan is run on
MaxLen == 5

\* the character sequences of at most n characters
RECURSIVE Texts(_)
Texts(n) ==
    IF n = 0 THEN {""}
    ELSE LET shorter == Texts(n - 1)
         IN  shorter \cup {t \o c : t \in shorter, c \in NestingAlphabet}

\* one script file holding one line of braces, quotes and backslashes
QuotedFiles == {Entry("m.js", "ok", Text(<<Line(s)>>, 0)) : s \in Texts(MaxLen)}

InitQuoted == InitOn({<<e>> : e \in QuotedFiles})

\* the analyser run on short texts of braces, quotes and backslashes
SpecQuoted == InitQuoted /\ [][Next]_vars

\* comment-only lines that are no documentation: the three openings is_comment
\* knows, one of them indented
CommentKinds == <<"// x = 1;", "  /* y = 2; */", "# z">>

\* a run of n comment-only lines
CommentRun(n) == [i \in 1..n |-> CommentKinds[(i % Len(CommentKinds)) + 1]]

\* what ends a run: a line of code, a blank line, a documentation comment
RunEnds == {"a();", "", "// @param x the value", "/// doc"}

\* headers of HEADER_LINES lines: code, or comments
CommentHeaders == {Repeat("a();", HEADER_LINES), Repeat(CommentKinds[1], HEADER_LINES)}

\* files with one or two runs of comment lines after the header, at and around
\* the threshold, the last run ending with the file or not
CommentedFiles ==
    {Entry("m.js", "ok", Text([i \in DOMAIN ls |-> Line(ls[i])], pad)) :
        ls \in {h \o CommentRun(n) \o <<e>> \o CommentRun(m) :
                    h \in CommentHeaders, e \in RunEnds,
                    n \in {COMMENTED_BLOCK_THRESHOLD - 1, COMMENTED_BLOCK_THRESHOLD,
                           COMMENTED_BLOCK_THRESHOLD + 1},
                    m \in {0, COMMENTED_BLOCK_THRESHOLD - 1, COMMENTED_BLOCK_THRESHOLD}},
        pad \in {0, 1}}
    \cup {Entry("t.py", "ok", Text([i \in DOMAIN ls |-> Line(ls[i])], 0)) :
        ls \in {Repeat("x = 1", HEADER_LINES - 1) \o Repeat("# z", n) :
                    n \in {COMMENTED_BLOCK_THRESHOLD, COMMENTED_BLOCK_THRESHOLD + 1}}}

\* one of the files, or a Python file followed by another file
CommentedTrees ==
    {<<e>> : e \in CommentedFiles}
    \cup {<<e, f>> : e \in {c \in CommentedFiles : c.path = "t.py"},
                     f \in {c \in CommentedFiles : c.path # "t.py"}}

InitCommented == InitOn(CommentedTrees)

\* the analyser run on files with runs of comment lines
SpecCommented == InitCommented /\ [][Next]_vars

\* catch blocks, each the lines it takes: an empty body, a body that is one block
\* comment, a body that is one line comment, a body with a statement
CatchBlocks ==
    [empty |-> <<"try { a(); } catch (e) { }">>,
     block |-> <<"try { a(); } catch (e) { /* ignore */ }">>,
     line |-> <<"try { a(); } catch (e) { // ignore", "}">>,
     handled |-> <<"try { a(); } catch (e) { log(e); }">>]

\* the catch blocks check_empty_catch is to report
SilentKinds == {"empty", "block", "line"}

\* a catch block on the first line, a second one after k lines of code
TwoCatches(first, k, second) ==
    LET ls == CatchBlocks[first] \o Repeat("a();", k) \o CatchBlocks[second]
    IN  Text([i \in DOMAIN ls |-> Line(ls[i])], 0)

\* the lines of code between the two catch blocks
CatchGaps == {0, 1, 9}

CatchFiles ==
    {Entry("m.js", "ok", TwoCatches(first, k, second)) :
        first \in DOMAIN CatchBlocks, k \in CatchGaps, second \in DOMAIN CatchBlocks}

CatchTrees ==
    {<<e>> : e \in CatchFiles}
    \cup {<<Entry("lib/n.ts", "ok", TwoCatches("block", 0, "empty")), e>> : e \in CatchFiles}

InitCatch == InitOn(CatchTrees)

\* the analyser run on files with two catch blocks
SpecCatch == InitCatch /\ [][Next]_vars

---------------------------------------------------------------------------
(* Files that import from packages and from files of the tree, at and around *)
(* the thresholds of check_coupling                                           *)

Packages ==
    <<"react", "lodash", "axios", "dayjs", "zod", "uuid", "clsx", "immer", "hono", "jose", "marked">>

Siblings ==
    <<"./m1", "./m2", "./m3", "./m4", "./m5", "./m6", "./m7", "./m8", "./m9", "./m10", "./m11">>

\* one named import from each of the first e packages and the first s siblings
ImportsFrom(e, s) ==
    Text([i \in 1..(e + s) |->
            ImportNamed(<<Name("x")>>, IF i <= e THEN Packages[i] ELSE Siblings[i - e])], 0)

\* how many packages and how many siblings the importing file names
ImportMixes == {<<11, 0>>, <<10, 0>>, <<0, 11>>, <<0, 10>>, <<6, 5>>, <<1, 10>>, <<1, 11>>}

FanNames == <<"f1.js", "f2.js", "f3.js", "f4.js", "f5.js", "f6.js">>

FanImports ==
    {<<ImportNamed(<<Name("x")>>, src)>> : src \in {"react", "./util"}}
    \cup {<<ImportDefault("x", src)>> : src \in {"react", "./util"}}
    \cup {<<ImportAll("x", src)>> : src \in {"react", "./util"}}

\* n files with the same import
Fan(n, sts) == [i \in 1..n |-> Entry(FanNames[i], "ok", Text(sts, 0))]

CoupledTrees ==
    {<<Entry("hub.js", "ok", ImportsFrom(mix[1], mix[2]))>> : mix \in ImportMixes}
    \cup {Fan(n, sts) : n \in {5, 6}, sts \in FanImports}
    \cup {Append(Fan(n, sts), Entry("util.js", "ok", Text(<<ExportNamed("x")>>, 0))) :
            n \in {5, 6}, sts \in FanImports}

InitCoupled == InitOn(CoupledTrees)

\* the analyser run on files that import from packages
SpecCoupled == InitCoupled /\ [][Next]_vars

---------------------------------------------------------------------------
(* The checks that follow graph construction, taken in other orders than that *)
(* of run_all_checks                                                           *)

\* __init__.py 79-107: the checks run once the graph is built
GRAPH_CHECKS ==
    LET built == CHOOSE k \in DOMAIN RUN_ORDER : RUN_ORDER[k] = "import_graph"
    IN  SubSeq(RUN_ORDER, built + 1, Len(RUN_ORDER))

Rotated(seq, k) == [i \in DOMAIN seq |-> seq[((i + k - 1) % Len(seq)) + 1]]
Reversed(seq) == [i \in DOMAIN seq |-> seq[Len(seq) + 1 - i]]
Swapped(seq, k) ==
    [i \in DOMAIN seq |-> IF i = k THEN seq[k + 1] ELSE IF i = k + 1 THEN seq[k] ELSE seq[i]]

\* the orders the checks are taken in: the order of the code and its reverse, each
\* started at any check, and the order of the code with two neighbours exchanged
Orders ==
    {Rotated(GRAPH_CHECKS, k) : k \in 0..(Len(GRAPH_CHECKS) - 1)}
    \cup {Rotated(Reversed(GRAPH_CHECKS), k) : k \in 0..(Len(GRAPH_CHECKS) - 1)}
    \cup {Swapped(GRAPH_CHECKS, k) : k \in 1..(Len(GRAPH_CHECKS) - 1)}

\* the checks run since the graph was built, in the order they were run
RunSoFar == SubSeq(trace, Len(RUN_ORDER) - Len(GRAPH_CHECKS) + 1, Len(trace))

\* __init__.py 79-107: the next check of one of the orders is run, with the
\* arguments run_all_checks passes to it; after the last one the method returns
AnyCheck ==
    /\ pc = GRAPH_CHECKS[1]
    /\ \E o \in Orders :
        /\ Len(RunSoFar) < Len(o)
        /\ RunSoFar = SubSeq(o, 1, Len(RunSoFar))
        /\ LET check == o[Len(RunSoFar) + 1]
           IN  RunCheck(check, CheckOutput(check, files, graph, tree),
                        IF Len(RunSoFar) + 1 = Len(o) THEN "return" ELSE GRAPH_CHECKS[1])

NextAnyOrder ==
    \/ MissingPath
    \/ Start
    \/ ScanFiles
    \/ CheckLineCounts
    \/ CheckDuplicateFiles
    \/ CheckDuplicateFunctions
    \/ BuildImportGraph
    \/ AnyCheck
    \/ Return
    \/ GetReport
    \/ PrintSummary
    \/ Exit

\* files in which several of the checks find something
FlawedFiles ==
    [util |-> Entry("util.js", "ok", Text(<<ExportNamed("helper"), ExportNamed("other")>>, 0)),
     main |-> Entry("main.js", "ok", Text(<<ImportNamed(<<Name("other")>>, "./util")>>, 0)),
     old |-> Entry("c_old.js", "ok", NotedText),
     deep |-> Entry("deep.js", "ok", Text(Function("f", Repeat(PlainIf, COMPLEXITY_THRESHOLD + 1)), 0)),
     quiet |-> Entry("quiet.js", "ok", TwoCatches("empty", 1, "handled")),
     hub |-> Entry("hub.js", "ok", ImportsFrom(COUPLING_THRESHOLD + 1, 0)),
     noisy |-> Entry("noisy.js", "ok", Text(<<Line("console.log(a);")>>, 0))]

FlawedTrees ==
    LET F == FlawedFiles
    IN  {<<F.util, F.main, F.old, F.deep>>,
         <<F.hub, F.quiet, F.noisy>>,
         <<F.deep>>,
         <<F.util, F.main, F.hub, F.deep, F.quiet, F.noisy, F.old>>}

InitAnyOrder == InitOn(FlawedTrees)

\* the analyser run once by main(), with the checks that follow graph construction
\* taken in any of the orders
SpecAnyOrder == InitAnyOrder /\ [][NextAnyOrder]_vars

---------------------------------------------------------------------------
(* Files with calls to console methods, under names on and off the list of    *)
(* allowed files                                                               *)

\* lines of code, each with the console methods CONSOLE_PATTERN finds called in it
ConsoleLines ==
    <<[line |-> "console.log(a);", calls |-> <<"log">>],
      [line |-> "  console.warn (b); console.info(c)", calls |-> <<"warn", "info">>],
      [line |-> "if (d) window.console.debug(", calls |-> <<"debug">>],
      [line |-> "console.error(c); myconsole.log(d); console.logs(e); console.log;", calls |-> <<>>],
      [line |-> "a();", calls |-> <<>>]>>

\* texts of one or two of the lines
ConsoleTexts ==
    {Text(<<Line(ConsoleLines[i].line)>>, 0) : i \in DOMAIN ConsoleLines}
    \cup {Text(<<Line(ConsoleLines[i].line), Line(ConsoleLines[j].line)>>, 0) :
            i, j \in DOMAIN ConsoleLines}

\* names on the list, names that hold a name of the list, names that hold "test",
\* and others
ConsoleNames ==
    {"logger.js", "src/index.js", "catalog.js", "ui/dialog.ts", "app.js", "lib/latest.js",
     "tests/app.js", "notes.md"}

ConsoleTrees ==
    {<<Entry(p, "ok", t)>> : p \in ConsoleNames, t \in ConsoleTexts}
    \cup {<<Entry("app.js", "ok", t), Entry("catalog.js", "ok", t)>> : t \in ConsoleTexts}

InitConsole == InitOn(ConsoleTrees)

\* the analyser run on files that call console methods
SpecConsole == InitConsole /\ [][Next]_vars

---------------------------------------------------------------------------
(* Roots and files whose paths hold an ignore pattern or not                  *)

\* resolved paths given to main(): without an ignore pattern, with "build" and
\* with "env" in them
Roots == {PlainRoot, "/srv/build/app", "/home/dev/environment"}

\* files of analysed and other types, in kept and in ignored directories
ScanMenu ==
    {Entry(p, "ok", PlainText) :
        p \in {"src/a.js", "src/n.md", "dist/d.js", "lib/b.tsx", "environment/e.js", "s.css",
               "Makefile"}}

InitRooted == InitAt(Roots, Trees(ScanMenu))

\* the analyser run on trees under the roots
SpecRooted == InitRooted /\ [][Next]_vars

---------------------------------------------------------------------------
(* Files with nested blocks inside functions that are closed and functions    *)
(* that the end of the file cuts short                                        *)

\* d blocks opened one inside the other, not closed
OpenBlocks(d) == Repeat("if (a) {", d)

\* d blocks opened one inside the other around a statement, and closed
ClosedBlocks(d) == OpenBlocks(d) \o <<"a();">> \o Repeat("}", d)

\* depths of the blocks inside a function, which with the function's own braces
\* are below, at and above NESTING_THRESHOLD
BlockDepths == {NESTING_THRESHOLD - 2, NESTING_THRESHOLD - 1, NESTING_THRESHOLD}

\* closing braces that close nothing, and braces inside literals
StrayBraces ==
    <<Line("}"), Line("} }"), Line("x = '{{{' + \"{\" + @${a}@;"), Line("{ a(); }")>>

NestedFiles ==
    {Entry("m.js", "ok", Text(Function("f", ClosedBlocks(d)), 0)) : d \in BlockDepths}
    \cup {Entry("m.js", "ok", Text(Unclosed(h, OpenBlocks(d)), 0)) :
            h \in OpenHeaders, d \in BlockDepths}
    \cup {Entry("m.js", "ok", Text(Function("f", ClosedBlocks(c)) \o Unclosed(h, OpenBlocks(d)), 0)) :
            h \in OpenHeaders, c \in BlockDepths, d \in BlockDepths}
    \cup {Entry("lib/n.ts", "ok", Text(Function("g", ClosedBlocks(d)), 0)) : d \in BlockDepths}
    \cup {Entry("lib/n.ts", "ok", Text(StrayBraces \o Function("g", ClosedBlocks(d)), 0)) :
            d \in BlockDepths}

\* one of the files, or a file of closed functions followed by another file
NestedTrees ==
    {<<e>> : e \in NestedFiles}
    \cup {<<Entry("m.js", "ok", Text(Function("f", ClosedBlocks(d)), 0)), e>> :
            d \in BlockDepths, e \in {f \in NestedFiles : f.path # "m.js"}}

InitNested == InitOn(NestedTrees)

\* the analyser run on files with nested blocks
SpecNested == InitNested /\ [][Next]_vars

---------------------------------------------------------------------------
(* Files with doc-comment blocks before, between and after runs of comment    *)
(* lines                                                                       *)

\* a doc-comment block of three lines, and one that opens and closes on its line
DocBlocks == {<<"/**", " * doc", " */">>, <<"/** doc */">>}

\* the lines after the header: a run, a doc-comment block, a run, a line of code
DocTails ==
    {CommentRun(a) \o d \o CommentRun(b) \o <<"a();">> :
        d \in DocBlocks,
        a \in {0, COMMENTED_BLOCK_THRESHOLD - 2, COMMENTED_BLOCK_THRESHOLD},
        b \in {COMMENTED_BLOCK_THRESHOLD - 2, COMMENTED_BLOCK_THRESHOLD - 1,
               COMMENTED_BLOCK_THRESHOLD}}

DocFiles ==
    {Entry(p, "ok", Text([i \in DOMAIN ls |-> Line(ls[i])], 0)) :
        p \in {"m.js", "lib/n.ts"},
        ls \in {Repeat("a();", HEADER_LINES) \o tail : tail \in DocTails}}

InitDocs == InitOn({<<e>> : e \in DocFiles})

\* the analyser run on files with doc-comment blocks
SpecDocs == InitDocs /\ [][Next]_vars

---------------------------------------------------------------------------
(* Files with one function each, of equal and different names and bodies      *)

\* the lines of function bodies: equal but for white space, different, with a
\* nested block before the difference, and longer than the 200 characters compared
FunctionBodies ==
    {<<"x();">>,
     <<"  x();  ">>,
     <<"y();">>,
     <<"if (a) { x(); }", "y();">>,
     <<"if (a) { x(); }", "z();">>,
     Repeat("x();", 40) \o <<"y();">>,
     Repeat("x();", 40) \o <<"z();">>,
     Repeat("x();", 39) \o <<"wwy();">>,
     Repeat("x();", 39) \o <<"wwz();">>}

\* a.js and c.ts declare f, b.js declares f or g
FunctionTrees ==
    {<<Entry("a.js", "ok", Text(Function("f", a), 0)),
       Entry("b.js", "ok", Text(Function(n, b), 0))>> :
        a \in FunctionBodies, b \in FunctionBodies, n \in {"f", "g"}}
    \cup {<<Entry("a.js", "ok", Text(Function("f", a), 0)),
            Entry("b.js", "ok", Text(Function("f", b), 0)),
            Entry("c.ts", "ok", Text(Function("f", c), 0))>> :
            a \in {<<"x();">>, <<"if (a) { x(); }", "y();">>},
            b \in {<<"  x();  ">>, <<"y();">>, <<"if (a) { x(); }", "z();">>},
            c \in {<<"x();">>, <<"y();">>}}

InitFunctions == InitOn(FunctionTrees)

\* the analyser run on files that declare functions of the same name
SpecFunctions == InitFunctions /\ [][Next]_vars

---------------------------------------------------------------------------
(* Modules imported by their file name, without extension, and by the         *)
(* directory that holds them as index file                                     *)

\* the importing file and the ways it names util.js and lib/index.js
ImportSpecifiers ==
    {<<"main.js", s>> : s \in {"./util.js", "./util", "./lib/index.js", "./lib/index", "./lib",
                               "./lib/"}}
    \cup {<<"src/app.js", s>> : s \in {"../util.js", "../util", "../lib/index", "../lib",
                                       "./../lib"}}

Importers ==
    {Entry(i[1], "ok", Text(<<ImportNamed(<<Name("helper")>>, i[2])>>, 0)) : i \in ImportSpecifiers}
    \cup {Entry(i[1], "ok", Text(<<ImportDefault("helper", i[2])>>, 0)) : i \in ImportSpecifiers}

HelperModule(p) == Entry(p, "ok", Text(<<ExportNamed("helper"), ExportDefault("helper")>>, 0))

\* the importing file next to both modules, next to one of them, and alone
ResolvedTrees ==
    {<<HelperModule("lib/index.js"), e, HelperModule("util.js")>> : e \in Importers}
    \cup {<<HelperModule("lib/index.js"), e>> : e \in Importers}
    \cup {<<e, HelperModule("util.js")>> : e \in Importers}
    \cup {<<e>> : e \in Importers}

InitResolved == InitOn(ResolvedTrees)

\* the analyser run on files that import modules in these ways
SpecResolved == InitResolved /\ [][Next]_vars

---------------------------------------------------------------------------
(* Files whose lines match several legacy patterns, an exception pattern or   *)
(* none, under names that match several file patterns or none                  *)

\* lines, each with the label of the first pattern of LEGACY_PATTERNS that matches
\* it, "" when none does or the line matches one of EXCEPTION_PATTERNS
MarkedLines ==
    <<[line |-> "x = 1; // legacy hack", label |-> "legacy marker"],
      [line |-> "// workaround for a deprecated call", label |-> "deprecated marker"],
      [line |-> "// deprecated since 2.0, legacy", label |-> ""],
      [line |-> "see /path/to/hack", label |-> ""],
      [line |-> "a();", label |-> ""],
      [line |-> "// HACK: Obsolete", label |-> "obsolete marker"],
      [line |-> "hackathon(); legacyCode();", label |-> ""]>>

\* texts of one or two of the lines
MarkedTexts ==
    {Text(<<Line(MarkedLines[i].line)>>, 0) : i \in DOMAIN MarkedLines}
    \cup {Text(<<Line(MarkedLines[i].line), Line(MarkedLines[j].line)>>, 0) :
            i, j \in DOMAIN MarkedLines}

\* names, each with whether one of LEGACY_FILE_PATTERNS matches it
MarkedNames ==
    <<[path |-> "a.js", legacy |-> FALSE],
      [path |-> "b_old.bak.js", legacy |-> TRUE],
      [path |-> "lib/c_v2.js", legacy |-> TRUE],
      [path |-> "lib/bold.js", legacy |-> FALSE]>>

MarkedTrees ==
    {<<Entry(MarkedNames[n].path, "ok", t)>> : n \in DOMAIN MarkedNames, t \in MarkedTexts}
    \cup {<<Entry("a.js", "ok", t), Entry("b_old.bak.js", "ok", t)>> : t \in MarkedTexts}

InitMarked == InitOn(MarkedTrees)

\* the analyser run on files with legacy markers
SpecMarked == InitMarked /\ [][Next]_vars

---------------------------------------------------------------------------
(* A module with a default export, named or not, next to files that import it *)
(* by default under the exported name or under another one                    *)

DefaultExporters ==
    {Entry("foo.js", "ok", Text(sts, 0)) :
        sts \in {<<ExportDefault("foo")>>,
                 <<ExportDefault("")>>,
                 <<ExportDefault("foo"), Use("foo")>>,
                 <<ExportDefault("foo"), ExportNamed("other")>>}}

DefaultImporters ==
    {Entry("main.js", "ok", Text(sts, 0)) :
        sts \in {<<ImportDefault("bar", "./foo"), Use("bar")>>,
                 <<ImportDefault("foo", "./foo"), Use("foo")>>,
                 <<ImportDefault("bar", "./foo.js")>>,
                 <<ImportNamed(<<Name("other")>>, "./foo")>>}}

DefaultTrees ==
    {<<e, i>> : e \in DefaultExporters, i \in DefaultImporters}
    \cup {<<e>> : e \in DefaultExporters}

InitDefaults == InitOn(DefaultTrees)

\* the analyser run on a module with a default export and its importers
SpecDefaults == InitDefaults /\ [][Next]_vars

---------------------------------------------------------------------------
(* Vocabulary of the properties *)

StepNo ==
    [start |-> 0, scan |-> 1, line_counts |-> 2, duplicate_files |-> 3,
     duplicate_functions |-> 4, import_graph |-> 5, dead_code |-> 6, complexity |-> 7,
     nesting |-> 8, long_functions |-> 9, console_leaks |-> 10, commented_code |-> 11,
     todo_density |-> 12, empty_catch |-> 13, coupling |-> 14, legacy_markers |-> 15,
     return |-> 16, returned |-> 17, exit |-> 18, done |-> 19]

\* the step has been executed in the call of run_all_checks under way (or just ended)
Past(step) == StepNo[pc] > StepNo[step]

\* the first call of run_all_checks on the checker is under way or has ended
FirstCall == runs = 0 \/ (runs = 1 /\ StepNo[pc] >= StepNo["returned"])

\* the positions in the violation list of the violations of a type against a file
Found(type, file) ==
    {j \in DOMAIN violations : violations[j].type = type /\ violations[j].file = file}

FoundOfType(type) == {j \in DOMAIN violations : violations[j].type = type}

IsScript(f) == Suffix(f.path) \in {".js", ".ts"}

\* the relative path is a file of the tree
Internal(rel) == \E i \in DOMAIN tree : tree[i].path = rel

\* the files a duplicate_file violation names: its file and those its detail lists
NamedBy(v) == {v.file} \cup Range(Split(SubSeq(v.detail, Len("Identical to: ") + 1, Len(v.detail)), ", "))

---------------------------------------------------------------------------
(* Properties *)

\* C1: once check_line_counts has run, every scanned file with more than 1.5 times
\* its threshold of lines has exactly one lines_exceeded violation, of severity P1;
\* every file above its threshold and at most 1.5 times it has exactly one, of
\* severity P2; a file at or below its threshold has none.
C1_LineCountSeverity ==
    (FirstCall /\ Past("line_counts")) =>
        \A i \in DOMAIN files :
            LET f == files[i]
                vs == Found("lines_exceeded", f.path)
            IN  /\ 2 * f.lines > 3 * f.threshold =>
                    Cardinality(vs) = 1 /\ \A j \in vs : violations[j].severity = "P1"
                /\ (f.lines > f.threshold /\ 2 * f.lines <= 3 * f.threshold) =>
                    Cardinality(vs) = 1 /\ \A j \in vs : violations[j].severity = "P2"
                /\ f.lines <= f.threshold => vs = {}

\* a tree with a file just over 1.5 times its threshold, one exactly at 1.5 times and
\* one exactly at its threshold has been checked
C1_Witness ==
    /\ FirstCall /\ Past("line_counts")
    /\ \E i, j, k \in DOMAIN files :
        /\ files[i].lines = 751 /\ files[i].threshold = 500
        /\ files[j].lines = 450 /\ files[j].threshold = 300
        /\ files[k].lines = 600 /\ files[k].threshold = 600

\* the scanned files that share the non-empty hash of file i, in scan order
HashGroup(i) == {j \in DOMAIN files : files[j].hash = files[i].hash}

\* C2: once check_duplicate_files has run, the files with a non-empty hash are
\* partitioned by hash: every group of two or more has exactly one duplicate_file
\* violation, against its first member and listing all the others in scan order;
\* there is no other duplicate_file violation; no file is named by two of them.
C2_DuplicateGroups ==
    (FirstCall /\ Past("duplicate_files")) =>
        LET D == FoundOfType("duplicate_file")
            firsts == {i \in DOMAIN files :
                        /\ files[i].hash # ""
                        /\ Cardinality(HashGroup(i)) >= 2
                        /\ i = Min(HashGroup(i))}
        IN  /\ \A i \in firsts :
                LET others == SelectSeq([j \in DOMAIN files |-> j],
                                        LAMBDA j : j \in HashGroup(i) /\ j # i)
                    vs == Found("duplicate_file", RelativeTo(files[i].path))
                IN  /\ Cardinality(vs) = 1
                    /\ \A v \in vs :
                        violations[v].detail =
                            "Identical to: " \o
                            Join(", ", [n \in DOMAIN others |-> RelativeTo(files[others[n]].path)])
            /\ Cardinality(D) = Cardinality(firsts)
            /\ \A a, b \in D : a # b => NamedBy(violations[a]) \cap NamedBy(violations[b]) = {}
            /\ \A a \in D : \A i \in DOMAIN files :
                RelativeTo(files[i].path) \in NamedBy(violations[a]) => files[i].hash # ""

\* three files of identical content have been checked, next to nothing else
C2_Witness ==
    /\ FirstCall /\ Past("duplicate_files")
    /\ Len(files) = 3
    /\ \A i \in DOMAIN files : files[i].hash = files[1].hash /\ files[i].hash # ""
    /\ \E j \in DOMAIN violations :
        /\ violations[j].type = "duplicate_file"
        /\ Cardinality(NamedBy(violations[j])) = 3

\* C3: run_all_checks returns True exactly when the checker's violation list is
\* empty, and main() exits with status 0 exactly when the list is empty and with a
\* non-zero status otherwise, after the report as after the summary.
C3_CleanAndExitCode ==
    /\ (pc \in {"returned", "exit", "done"} /\ runs > 0) => (passed[1] <=> violations = <<>>)
    /\ (pc = "done" /\ runs > 0) =>
        /\ output \in {"report", "summary"}
        /\ (exitCode = 0 <=> violations = <<>>)
        /\ (exitCode # 0 <=> violations # <<>>)

\* main() has exited non-zero after a report on a tree with violations
C3_Witness ==
    /\ pc = "done" /\ output = "report" /\ exitCode = 1 /\ violations # <<>>

\* C4 (as claimed): whenever a call of run_all_checks has returned, the checker's
\* violation list is the one the first call left, the tree being unchanged.
C4_Idempotent ==
    pc = "returned" => violations = firstRun

\* C5: no unused_export violation is against a file of ENTRY_POINTS.
C5_EntryPointsNeverDead ==
    \A j \in DOMAIN violations :
        violations[j].type = "unused_export" => violations[j].file \notin ENTRY_POINTS

\* the dead-code check has met an entry point that is imported and has an export
\* nothing uses
C5_Witness ==
    /\ Past("dead_code")
    /\ \E i \in DOMAIN graph.exports :
        /\ graph.exports[i].k \in ENTRY_POINTS
        /\ FileImported(graph, graph.exports[i].k)
        /\ \E n \in DOMAIN graph.exports[i].v :
            /\ <<graph.exports[i].k, graph.exports[i].v[n].name>> \notin graph.used_exports
            /\ ~IsConstantName(graph.exports[i].v[n].name)

\* the named import statements of the scanned script files: <<file, statement>>
StmtsAt(kind) ==
    UNION {{<<i, n>> : n \in {m \in DOMAIN files[i].content.stmts :
                                    files[i].content.stmts[m].k = kind}} :
            i \in {k \in DOMAIN files : IsScript(files[k])}}

NamedImports == StmtsAt("importNamed")

\* C6: once the import graph is built, for every named import "import { n } from p"
\* or "import { n as m } from p" of a script file whose path resolves to a file T
\* of the tree, (T, n) is in used_exports.
C6_NamedImportsUsed ==
    Past("import_graph") =>
        \A im \in NamedImports :
            LET st == files[im[1]].content.stmts[im[2]]
                T == resolve_import_path(files[im[1]].path, st.from, tree)
            IN  Internal(T) => \A s \in DOMAIN st.specs : <<T, st.specs[s].n>> \in graph.used_exports

\* the graph has been built from a file that imports a name under an alias from a
\* file of the tree
C6_Witness ==
    /\ Past("import_graph")
    /\ \E im \in NamedImports :
        LET st == files[im[1]].content.stmts[im[2]]
        IN  /\ Internal(resolve_import_path(files[im[1]].path, st.from, tree))
            /\ \E s \in DOMAIN st.specs : st.specs[s].as # ""

\* the target of an import statement, as the graph builder resolves it
TargetOf(im) ==
    resolve_import_path(files[im[1]].path, files[im[1]].content.stmts[im[2]].from, tree)

AllImports == StmtsAt("importNamed") \cup StmtsAt("importDefault") \cup StmtsAt("importAll")

\* C7 (as claimed): once the import graph is built, for every namespace import
\* "import * as N from p" resolved to a file X of the tree, every export recorded
\* in exports[X] is in used_exports, in whatever order the files were scanned.
C7_NamespaceMarksAllExports ==
    Past("import_graph") =>
        \A im \in StmtsAt("importAll") :
            LET X == TargetOf(im)
            IN  Internal(X) =>
                    \A e \in Range(DictGet(graph.exports, X)) : <<X, e.name>> \in graph.used_exports

\* C8 (as claimed): once the dead-code check has run, a file that no import
\* statement resolves to has no unused_export violation, whatever else is imported.
C8_ImportGate ==
    (FirstCall /\ Past("dead_code")) =>
        \A i \in DOMAIN graph.exports :
            LET F == graph.exports[i].k
            IN  (\A im \in AllImports : TargetOf(im) # F) => Found("unused_export", F) = {}

\* C9 (as claimed): once the dead-code check has run, every export e of a file F
\* that is no entry point and is imported by another file, with e not in
\* used_exports, not named like a constant and occurring at most once in the text
\* of F, has exactly one unused_export violation.
C9_UnusedExportReported ==
    (FirstCall /\ Past("dead_code")) =>
        \A i \in DOMAIN graph.exports :
            LET F == graph.exports[i].k
                exps == graph.exports[i].v
            IN  (/\ F \notin ENTRY_POINTS
                 /\ \E im \in AllImports : TargetOf(im) = F /\ RelativeTo(files[im[1]].path) # F)
                =>
                \A n \in DOMAIN exps :
                    (/\ <<F, exps[n].name>> \notin graph.used_exports
                     /\ ~IsConstantName(exps[n].name)
                     /\ Occurrences(exps[n].name, FileContent(files, F)) <= 1)
                    =>
                    Cardinality({j \in Found("unused_export", F) :
                                    violations[j].detail =
                                        "Export '" \o exps[n].name \o "' is never imported"}) = 1

\* C10 (as claimed): once all checks have run, every file of the tree that the
\* scanner keeps and that cannot be read as text is recorded with line count 0 and
\* empty hash, is named by no duplicate_file violation and has no legacy_marker
\* violation; and the scan has recorded every file it keeps.
C10_UnreadableExcluded ==
    (FirstCall /\ Past("legacy_markers")) =>
        /\ Len(files) = Cardinality({t \in DOMAIN tree : Scanned(tree[t])})
        /\ \A t \in DOMAIN tree :
            (tree[t].read # "ok" /\ Scanned(tree[t])) =>
                /\ \E i \in DOMAIN files :
                    /\ files[i].path = Abs(tree[t].path)
                    /\ files[i].lines = 0
                    /\ files[i].hash = ""
                /\ \A d \in FoundOfType("duplicate_file") : tree[t].path \notin NamedBy(violations[d])
                /\ Found("legacy_marker", Abs(tree[t].path)) = {}

\* C11: when the path given on the command line does not exist, main() reports it
\* and exits with a non-zero status, and nothing else happens: no file is scanned,
\* no check runs, no graph is built, run_all_checks is never called.
C11_MissingPathExits ==
    (~rootExists /\ pc # "start") =>
        /\ pc = "done"
        /\ output = "error"
        /\ exitCode # 0
        /\ files = <<>> /\ violations = <<>> /\ graph = EmptyGraph
        /\ passed = <<>> /\ runs = 0

\* main() has exited on a path that does not exist
C11_Witness ==
    ~rootExists /\ pc = "done" /\ exitCode = 1

\* the violations the checks among the steps return on the files and the graph of
\* the checker, one after the other
RECURSIVE Outputs(_)
Outputs(steps) ==
    IF steps = <<>> THEN <<>>
    ELSE (IF Head(steps) \in {"scan", "import_graph"} THEN <<>>
          ELSE CheckOutput(Head(steps), files, graph, tree))
            \o Outputs(Tail(steps))

\* C12: on every call of run_all_checks the steps taken so far are the first steps
\* of the fixed order (scan, line counts, duplicate files, duplicate functions, import
\* graph, dead code, and the other checks), and the list the call ends with is the
\* concatenation of what the checks returned, in that order.
C12_FixedOrderConcatenation ==
    /\ Len(trace) <= Len(RUN_ORDER)
    /\ trace = SubSeq(RUN_ORDER, 1, Len(trace))
    /\ pc = "returned" => violations = Outputs(RUN_ORDER)

\* the lines printed that begin with one of the prefixes
LinesWith(prefixes) ==
    {i \in DOMAIN printed : \E p \in prefixes : StartsWith(printed[i], p)}

\* the entries of the console summary: the lines that carry the mark of a severity
SummaryMarks == {"  (red) [", "  (yellow) [", "  (blue) ["}

\* the line of the summary that gives the tally
TallyLine(p1, p2, p3) ==
    "Summary: " \o ToStr(p1) \o " P1, " \o ToStr(p2) \o " P2, " \o ToStr(p3) \o " P3"

\* C13: what main() prints accounts for the violations one to one.  The console
\* summary has one entry per violation; when there are violations its last line
\* is a tally whose three figures add up to the number of violations, the P1 figure
\* being the number of P1 violations and of entries marked as P1.  The markdown
\* report has one table row per violation and states the number of violations.
C13_OneToOneAccounting ==
    /\ (pc \in {"exit", "done"} /\ output = "summary") =>
        /\ Cardinality(LinesWith(SummaryMarks)) = Len(violations)
        /\ violations # <<>> =>
            \E p1, p2, p3 \in 0..Len(violations) :
                /\ printed[Len(printed)] = TallyLine(p1, p2, p3)
                /\ p1 + p2 + p3 = Len(violations)
                /\ p1 = Cardinality({i \in DOMAIN violations : violations[i].severity = "P1"})
                /\ p1 = Cardinality(LinesWith({"  (red) ["}))
    /\ (pc \in {"exit", "done"} /\ output = "report") =>
        /\ Cardinality(LinesWith({"| P"})) = Len(violations)
        /\ \E i \in DOMAIN printed : printed[i] = "**Violations:** " \o ToStr(Len(violations))

\* the summary of a run that found violations of two severities, two of them of
\* the same type and severity, has been printed
C13_Witness ==
    /\ pc = "done" /\ output = "summary"
    /\ \E i, j \in DOMAIN violations :
        /\ i # j
        /\ violations[i].type = violations[j].type
        /\ violations[i].severity = "P1" /\ violations[j].severity = "P1"
    /\ \E k \in DOMAIN violations : violations[k].severity # "P1"

\* the decision points of a line, as BranchLines gives them
DecisionsOf(line) ==
    LET known == {k \in DOMAIN BranchLines : BranchLines[k].line = line}
    IN  IF known = {} THEN 0 ELSE BranchLines[CHOOSE k \in known : TRUE].decisions

SumDecisions(stmts) ==
    Fold(LAMBDA n, sts, i : n + DecisionsOf(Render(sts[i])), 0, stmts, 1, Len(stmts))

\* the violation check_complexity writes for a function
HighComplexity(file, name, complexity, line) ==
    Violation("high_complexity", "P2", file,
              "Function '" \o name \o "' has complexity " \o ToStr(complexity)
              \o " (threshold: 15) at line " \o ToStr(line))

\* C14: once check_complexity has run on a new checker, a function's complexity is 1 plus the number
\* of matches of the decision patterns in its body, and the function has exactly one
\* high_complexity violation, which carries that number, when the number is above
\* the threshold of 15, and none otherwise: 16 plain ifs give one violation that
\* reports 17, 14 plain ifs (and 15) give none.
C14_ComplexityThreshold ==
    (Past("complexity") /\ FirstCall) =>
        \A t \in DOMAIN tree :
            LET stmts == tree[t].text.stmts
                first == IF stmts[1].k = "comment" THEN 2 ELSE 1
                name == IF first = 2 THEN "g" ELSE "f"
                complexity == 1 + SumDecisions(stmts)
                found == Found("high_complexity", tree[t].path)
            IN  /\ Cardinality(found) = IF complexity > 15 THEN 1 ELSE 0
                /\ \A j \in found :
                    violations[j] = HighComplexity(tree[t].path, name, complexity, first)

\* check_complexity has reported a function of 16 plain ifs with complexity 17 and
\* has passed over a function of 14 plain ifs in another file
C14_Witness ==
    /\ Past("complexity") /\ FirstCall
    /\ \E t, u \in DOMAIN tree :
        /\ tree[t].text.stmts = Function("f", Repeat(PlainIf, 16))
        /\ violations[CHOOSE j \in Found("high_complexity", tree[t].path) : TRUE]
                = HighComplexity("m.js", "f", 17, 1)
        /\ tree[u].text.stmts = <<Comment("n")>> \o Function("g", Repeat(PlainIf, 14))
        /\ Found("high_complexity", tree[u].path) = {}

\* the violation check_long_functions writes for a function
LongFunction(file, name, func_lines, line) ==
    Violation("long_function", "P2", file,
              "Function '" \o name \o "' has " \o ToStr(func_lines)
              \o " lines (threshold: 60) at line " \o ToStr(line))

\* the positions of the violations of the two checks that name the function
FoundForFunction(file, name) ==
    {j \in Found("high_complexity", file) \cup Found("long_function", file) :
        StartsWith(violations[j].detail, "Function '" \o name \o "' ")}

\* what the two checks report for a closed function f of the given body that
\* starts at the given line
ReportsOfClosed(file, body, line) ==
    (IF 1 + SumDecisions(Function("f", body)) > 15
     THEN {HighComplexity(file, "f", 1 + SumDecisions(Function("f", body)), line)} ELSE {})
    \cup (IF Len(body) + 2 > 60 THEN {LongFunction(file, "f", Len(body) + 2, line)} ELSE {})

\* C15: a function whose opening brace is never closed before the end of the file
\* is not extracted: once check_complexity and check_long_functions have run on a
\* new checker neither has a violation for it, however complex and long its text,
\* while a closed function of the same file, before or after it, is reported as
\* if it stood alone.
C15_UnclosedFunctionSkipped ==
    (Past("long_functions") /\ FirstCall) =>
        \A t \in DOMAIN tree : \A h \in OpenHeaders : \A b \in ClosedBodies :
            LET stmts == tree[t].text.stmts
                file == tree[t].path
                closedLast == stmts = Unclosed(h, HeavyBody) \o Function("f", b)
                closedFirst == stmts = Function("f", b) \o Unclosed(h, HeavyBody)
            IN  /\ (closedLast \/ closedFirst \/ stmts = Unclosed(h, HeavyBody)) =>
                        FoundForFunction(file, "u") = {}
                /\ (closedLast \/ closedFirst) =>
                        {violations[j] : j \in FoundForFunction(file, "f")}
                            = ReportsOfClosed(file, b, IF closedFirst THEN 1 ELSE Len(HeavyBody) + 2)

\* both checks have run on a file that ends inside a function which would be too
\* complex and too long, and reported only the closed function that follows it
C15_Witness ==
    /\ Past("long_functions") /\ FirstCall
    /\ \E t \in DOMAIN tree :
        /\ tree[t].text.stmts = Unclosed("function u() {", HeavyBody)
                                    \o Function("f", Repeat(PlainIf, COMPLEXITY_THRESHOLD + 1))
        /\ FoundForFunction(tree[t].path, "u") = {}
        /\ Cardinality(FoundForFunction(tree[t].path, "f")) = 1
    /\ \E t \in DOMAIN tree :
        /\ tree[t].text.stmts = Function("u", HeavyBody)
        /\ Cardinality(FoundForFunction(tree[t].path, "u")) = 2

\* Literals as the language delimits them: a quote opens a literal that the same
\* quote closes, and inside a literal a backslash takes the next character with
\* it.  st.quote is the quote of the literal under way ("" outside), st.escaped
\* says the character before was such a backslash.
LiteralStep(st, code, i) ==
    LET c == Ch(code, i)
    IN  IF st.quote = "" THEN [quote |-> IF IsQuoteCh(c) THEN c ELSE "", escaped |-> FALSE]
        ELSE IF st.escaped THEN [st EXCEPT !.escaped = FALSE]
        ELSE IF c = "\\" THEN [st EXCEPT !.escaped = TRUE]
        ELSE IF c = st.quote THEN [quote |-> "", escaped |-> FALSE]
        ELSE st

\* the character at i lies inside a literal
InLiteral(code, i) ==
    Fold(LiteralStep, [quote |-> "", escaped |-> FALSE], code, 1, i - 1).quote # ""

\* the depth calculate_max_nesting holds after the first n characters
DepthAfter(code, n) == Fold(NestingAt, NestingStart, code, 1, n).current_depth

\* every backslash of the text stands inside a literal
EscapesInLiterals(code) == \A i \in 1..Len(code) : Ch(code, i) = "\\" => InLiteral(code, i)

\* C16: on every text whose backslashes stand inside literals, calculate_max_nesting
\* changes the depth at a character exactly when the character is a brace outside
\* the string and template literals (a closing brace at depth 0 aside, which has
\* nothing to close): an escaped quote does not end a literal, a quote after an
\* escaped backslash does.
C16_BracesOutsideLiterals ==
    Past("nesting") =>
        \A f \in DOMAIN files :
            LET code == Code(files[f].content)
            IN  EscapesInLiterals(code) =>
                    \A i \in 1..Len(code) :
                        (DepthAfter(code, i) # DepthAfter(code, i - 1))
                            <=> /\ Ch(code, i) \in {"{", "}"}
                                /\ ~InLiteral(code, i)
                                /\ ~(Ch(code, i) = "}" /\ DepthAfter(code, i - 1) = 0)

\* the lines of a file of the tree, as content.split gives them
AllLines(e) == TextLines(e.text) \o Repeat("0;", e.text.pad)

\* a comment-only line that is no documentation
IsPlainComment(line) == line \in Range(CommentKinds)

\* lines a..b (counted from 1) are a maximal run of such lines after the header
IsRun(lines, a, b) ==
    /\ HEADER_LINES < a /\ a <= b /\ b <= Len(lines)
    /\ \A i \in a..b : IsPlainComment(lines[i])
    /\ (a = HEADER_LINES + 1 \/ ~IsPlainComment(lines[a - 1]))
    /\ (b = Len(lines) \/ ~IsPlainComment(lines[b + 1]))

\* the violation check_commented_code writes for a run
CommentedBlockOf(file, n, start) ==
    Violation("commented_block", "P3", file,
              ToStr(n) \o " consecutive comment lines starting at line " \o ToStr(start))

\* C17: once check_commented_code has run on a new checker, a file without
\* doc-comment blocks has exactly one commented_block violation for every maximal
\* run of n >= 5 consecutive comment-only lines that are no documentation and lie
\* after the 25-line header, with the run's first line and n in its detail, and
\* none for a run of n <= 4, whether the run ends with the file or before.
C17_CommentedBlocks ==
    (Past("commented_code") /\ FirstCall) =>
        \A t \in DOMAIN tree :
            LET lines == AllLines(tree[t])
                found == Found("commented_block", tree[t].path)
                runs5 == {r \in (DOMAIN lines) \X (DOMAIN lines) :
                            /\ IsRun(lines, r[1], r[2])
                            /\ r[2] - r[1] + 1 >= 5}
            IN  /\ Cardinality(found) = Cardinality(runs5)
                /\ \A r \in runs5 :
                    \E j \in found :
                        violations[j] = CommentedBlockOf(tree[t].path, r[2] - r[1] + 1, r[1])

\* check_commented_code has reported a run of exactly 5 lines that ends with the
\* file and kept silent about the run of 4 lines before it
C17_Witness ==
    /\ Past("commented_code") /\ FirstCall
    /\ \E t \in DOMAIN tree :
        LET lines == AllLines(tree[t])
        IN  /\ IsRun(lines, HEADER_LINES + 1, HEADER_LINES + 4)
            /\ IsRun(lines, Len(lines) - 4, Len(lines))
            /\ {violations[j] : j \in Found("commented_block", tree[t].path)}
                    = {CommentedBlockOf(tree[t].path, 5, Len(lines) - 4)}

\* the violations of check_empty_catch against the file that give the line
ReportsOfLine(file, n) ==
    {j \in Found("empty_catch", file) :
        violations[j].detail \in
            {"Empty catch block at line " \o ToStr(n) \o " - errors silently swallowed",
             "Catch block with only comment at line " \o ToStr(n)}}

\* C18: once check_empty_catch has run on a new checker, every catch block of a
\* file whose body is empty or a single comment has exactly one empty_catch
\* violation that gives its line, whatever other catch block the file holds, and
\* the file has no other empty_catch violation.
C18_EachSilentCatchOnce ==
    (Past("empty_catch") /\ FirstCall) =>
        \A t \in DOMAIN tree :
            \A first \in DOMAIN CatchBlocks, k \in CatchGaps, second \in DOMAIN CatchBlocks :
                tree[t].text = TwoCatches(first, k, second) =>
                    LET file == tree[t].path
                        line2 == Len(CatchBlocks[first]) + k + 1
                    IN  /\ Cardinality(ReportsOfLine(file, 1))
                                = IF first \in SilentKinds THEN 1 ELSE 0
                        /\ Cardinality(ReportsOfLine(file, line2))
                                = IF second \in SilentKinds THEN 1 ELSE 0
                        /\ Found("empty_catch", file)
                                = ReportsOfLine(file, 1) \cup ReportsOfLine(file, line2)

\* the import statements of a file of the tree
ImportStmts(t) ==
    SelectSeq(tree[t].text.stmts,
              LAMBDA st : st.k \in {"importNamed", "importDefault", "importAll"})

\* the specifiers of the tree's imports that are not relative: packages
ExternalSpecifiers ==
    UNION {{st.from : st \in {x \in Range(ImportStmts(t)) : ~StartsWith(x.from, ".")}} :
            t \in DOMAIN tree}

\* the distinct relative specifiers a file of the tree imports names from
RelativeSources(t) ==
    {st.from : st \in {x \in Range(ImportStmts(t)) :
                        x.k # "importAll" /\ StartsWith(x.from, ".")}}

\* C19 (as claimed): once check_coupling has run, a file has a high_coupling
\* violation only when the distinct relative specifiers it imports from are more
\* than COUPLING_THRESHOLD, imports from packages not counting; and no god_file
\* violation has a package identifier as its file.
C19_ExternalsNeverCoupled ==
    (FirstCall /\ Past("coupling")) =>
        /\ \A t \in DOMAIN tree :
            Found("high_coupling", tree[t].path) # {} =>
                Cardinality(RelativeSources(t)) > COUPLING_THRESHOLD
        /\ \A j \in FoundOfType("god_file") : violations[j].file \notin ExternalSpecifiers

\* what a check returns in run_all_checks, where it is called in the order of the
\* code on the scanned files and the graph built from them
InOrderOutput(check) ==
    CASE check = "line_counts" -> check_line_counts(scan_files(tree))
      [] check = "duplicate_files" -> check_duplicate_files(scan_files(tree))
      [] check = "duplicate_functions" -> check_duplicate_functions(scan_files(tree))
      [] check = "dead_code" -> check_dead_code(files, graph)
      [] check = "complexity" -> check_complexity(files)
      [] check = "nesting" -> check_nesting(files)
      [] check = "long_functions" -> check_long_functions(files)
      [] check = "console_leaks" -> check_console_leaks(files)
      [] check = "commented_code" -> check_commented_code(files)
      [] check = "todo_density" -> check_todo_density(files)
      [] check = "empty_catch" -> check_empty_catch(files)
      [] check = "coupling" -> check_coupling(files, graph)
      [] check = "legacy_markers" -> check_legacy_markers(files, tree)
      [] OTHER -> <<>>

\* the outputs of the steps, one after the other
RECURSIVE InOrderOutputs(_)
InOrderOutputs(steps) ==
    IF steps = <<>> THEN <<>> ELSE InOrderOutput(Head(steps)) \o InOrderOutputs(Tail(steps))

CallsIn(line) ==
    LET k == CHOOSE i \in DOMAIN ConsoleLines : ConsoleLines[i].line = line
    IN  ConsoleLines[k].calls

\* the details of the console_leak violations a file of the tree is to have: one per
\* call, line after line
ExpectedLeaks(t) ==
    Concat(LAMBDA sts, n : [k \in DOMAIN CallsIn(sts[n].note) |->
                                "console." \o CallsIn(sts[n].note)[k] \o "() at line " \o ToStr(n)],
           tree[t].text.stmts, 1, Len(tree[t].text.stmts))

\* the details of the violations of a type against a file, in the order of the list
DetailsOf(type, file) ==
    LET vs == SelectSeq(violations, LAMBDA v : v.type = type /\ v.file = file)
    IN  [k \in DOMAIN vs |-> vs[k].detail]

\* C21 (as claimed): once check_console_leaks has run, every .js or .ts file whose
\* name is not one of ALLOWED_FILES and whose path does not hold "test" has one
\* console_leak violation per call to console.log, debug, info or warn, with the line
\* of the call; the files whose name is on the list or whose path holds "test", and
\* the files of other types, have none.
C21_ConsoleLeaks ==
    (FirstCall /\ Past("console_leaks")) =>
        \A t \in DOMAIN tree :
            LET p == tree[t].path
                exempt == \/ Suffix(p) \notin {".js", ".ts"}
                          \/ BaseName(p) \in ALLOWED_FILES
                          \/ IsSubstr("test", Lower(p))
            IN  DetailsOf("console_leak", p) = IF exempt THEN <<>> ELSE ExpectedLeaks(t)

\* the path relative to the root holds none of the IGNORE_PATTERNS and its
\* extension is one of ANALYZE_EXTENSIONS
Analyzable(rel) ==
    /\ Suffix(rel) \in ANALYZE_EXTENSIONS
    /\ \A pattern \in IGNORE_PATTERNS : ~IsSubstr(pattern, rel)

\* C22 (as claimed): once the scan has run, the file list holds exactly one record
\* for each file of the tree whose extension is analysed and whose path relative to
\* the root holds no ignore pattern, and no record for any other file.
C22_ScanExactlyAnalyzable ==
    Past("scan") =>
        /\ \A t \in DOMAIN tree :
            Cardinality({i \in DOMAIN files : files[i].path = Abs(tree[t].path)})
                = IF Analyzable(tree[t].path) THEN 1 ELSE 0
        /\ \A i \in DOMAIN files : \E t \in DOMAIN tree : files[i].path = Abs(tree[t].path)

\* the lines of the headers of the functions of a text whose braces never balance
OpenFunctionLines(content) ==
    LET ms == FuncMatches(content) \o ArrowMatches(content)
    IN  {LineOf(content, ms[k].start) : k \in {i \in DOMAIN ms : CloseOf(content, ms[i].brace) = 0}}

\* the detail of a deep_nesting violation names a line before line n
NearLineBefore(detail, n) ==
    \E l \in 1..(n - 1) : EndsWith(detail, " near line " \o ToStr(l))

\* C23 (as claimed): once check_nesting has run, no deep_nesting violation of a file
\* names a line that lies inside a function whose braces never balance, that is, at
\* or after the header of such a function.
C23_UnclosedFunctionNotNested ==
    (FirstCall /\ Past("nesting")) =>
        \A t \in DOMAIN tree :
            LET open == OpenFunctionLines(Code(tree[t].text))
            IN  \A j \in Found("deep_nesting", tree[t].path) :
                    \A n \in open : NearLineBefore(violations[j].detail, n)

\* the details check_commented_code is to write for a file: one for every maximal
\* run of at least COMMENTED_BLOCK_THRESHOLD comment-only lines after the header; a
\* line of a doc-comment block is no such line and ends the run before it
ExpectedBlocks(lines) ==
    {CommentedBlockOf("", r[2] - r[1] + 1, r[1]).detail :
        r \in {q \in (DOMAIN lines) \X (DOMAIN lines) :
                /\ IsRun(lines, q[1], q[2])
                /\ q[2] - q[1] + 1 >= COMMENTED_BLOCK_THRESHOLD}}

\* C24 (as claimed): once check_commented_code has run, the commented_block
\* violations of a file with doc-comment blocks are exactly one for every maximal
\* run of at least COMMENTED_BLOCK_THRESHOLD consecutive comment-only lines outside
\* the doc-comment blocks, whether a block spans several lines or one, and whether
\* or not shorter runs stand on both sides of it.
C24_DocBlocksSkipped ==
    (FirstCall /\ Past("commented_code")) =>
        \A t \in DOMAIN tree :
            LET expected == ExpectedBlocks(AllLines(tree[t]))
                found == Found("commented_block", tree[t].path)
            IN  /\ {violations[j].detail : j \in found} = expected
                /\ Cardinality(found) = Cardinality(expected)

\* the function a file of FunctionTrees declares: its name, and its body between
\* the braces with every run of white space turned into one space, cut at 200
\* characters
DeclaredIn(t) ==
    LET sts == tree[t].text.stmts
        header == sts[1].note
        body == [i \in 1..(Len(sts) - 2) |-> StripAll(sts[i + 1].note)]
        normalized == Join(" ", body)
    IN  [name |-> SubSeq(header, Len("function ") + 1, Len(header) - Len("() {")),
         key |-> SubSeq(normalized, 1, Min({200, Len(normalized)}))]

\* the files of the tree whose function has the name and the compared body of the
\* function of file t
SameFunction(t) == {u \in DOMAIN tree : DeclaredIn(u) = DeclaredIn(t)}

\* C25 (as claimed): once check_duplicate_functions has run, each group of two or
\* more functions of the same name whose bodies between the braces, white space
\* normalised, agree on their first 200 characters has exactly one
\* duplicate_function violation, against the first file and naming the others;
\* there is no other duplicate_function violation, so functions of the same name
\* whose bodies differ within these characters are not reported.
C25_DuplicateFunctionGroups ==
    (FirstCall /\ Past("duplicate_functions")) =>
        LET firsts == {t \in DOMAIN tree :
                        Cardinality(SameFunction(t)) >= 2 /\ t = Min(SameFunction(t))}
        IN  /\ \A t \in firsts :
                LET others == SelectSeq([u \in DOMAIN tree |-> u],
                                        LAMBDA u : u \in SameFunction(t) /\ u # t)
                IN  DetailsOf("duplicate_function", tree[t].path) =
                        <<"Function '" \o DeclaredIn(t).name \o "' duplicated in: "
                          \o Join(", ", [n \in DOMAIN others |-> tree[others[n]].path])>>
            /\ Cardinality(FoundOfType("duplicate_function")) = Cardinality(firsts)

\* the module a relative specifier of file t names: the first of the literal
\* path, the path with a source extension, and the index file inside the path
\* taken as a directory, that is a file of the tree; "" when there is none
ModuleOf(t, specifier) ==
    LET joined == Resolve(Parent(Abs(tree[t].path)) \o "/" \o specifier)
        candidates == <<joined>> \o [i \in DOMAIN ImportExtensions |-> joined \o ImportExtensions[i]]
        ok == {i \in DOMAIN candidates : \E u \in DOMAIN tree : Abs(tree[u].path) = candidates[i]}
    IN  IF ok = {} THEN "" ELSE RelativeTo(candidates[Min(ok)])

\* C26 (as claimed): once the graph is built, every named or default import of a
\* file with a relative specifier whose module is a file of the tree is recorded,
\* in imports and in imported_by, under the path of that module relative to the
\* root, which is the path that keys the module's exports.
C26_ImportsResolveToModules ==
    Past("import_graph") =>
        \A t \in DOMAIN tree :
            \A n \in DOMAIN ImportStmts(t) :
                LET st == ImportStmts(t)[n]
                    module == ModuleOf(t, st.from)
                IN  (st.k # "importAll" /\ StartsWith(st.from, ".") /\ module # "") =>
                        /\ DictHas(graph.exports, module)
                        /\ \E i \in DOMAIN DictGet(graph.imports, tree[t].path) :
                                DictGet(graph.imports, tree[t].path)[i][2] = module
                        /\ tree[t].path \in Range(DictGet(graph.imported_by, module))

\* the state of the scan of calculate_max_nesting after each of the characters of
\* the text, from none to all
ScanStates(code) == [k \in 0..Len(code) |-> Fold(NestingAt, NestingStart, code, 1, k)]

\* C27: the depth of the scan is never negative and never above the recorded
\* maximum; calculate_max_nesting returns the largest depth the scan reached and the
\* line the scan was on when that depth was first reached (line 1 when no brace was
\* counted); and check_nesting writes one deep_nesting violation, with that depth
\* and line, for a .js or .ts file whose maximum is above NESTING_THRESHOLD, and
\* none for any other file.
C27_NestingScan ==
    (FirstCall /\ Past("nesting")) =>
        \A t \in DOMAIN tree :
            LET code == Code(tree[t].text)
                sts == ScanStates(code)
                depths == {sts[k].current_depth : k \in DOMAIN sts}
                largest == Max(depths)
                first == Min({k \in DOMAIN sts : sts[k].current_depth = largest})
                r == calculate_max_nesting(code)
            IN  /\ \A k \in DOMAIN sts :
                    /\ sts[k].current_depth >= 0
                    /\ sts[k].current_depth <= sts[k].max_depth
                /\ r[1] = largest
                /\ r[2] = IF largest = 0 THEN 1 ELSE sts[first].current_line
                /\ DetailsOf("deep_nesting", tree[t].path) =
                        IF largest > NESTING_THRESHOLD
                        THEN <<"Max nesting depth " \o ToStr(largest) \o " (threshold: "
                               \o ToStr(NESTING_THRESHOLD) \o ") near line "
                               \o ToStr(sts[first].current_line)>>
                        ELSE <<>>

\* check_nesting has run on a file in which closing braces close nothing and braces
\* stand inside literals, and whose deepest block, at depth 6, it has reported; and
\* on a file whose deepest block is at the threshold, about which it kept silent
C27_Witness ==
    /\ FirstCall /\ Past("nesting")
    /\ \E t, u \in DOMAIN tree :
        /\ tree[t].text.stmts[1].note = "}"
        /\ calculate_max_nesting(Code(tree[t].text))[1] = NESTING_THRESHOLD + 1
        /\ Found("deep_nesting", tree[t].path) # {}
        /\ calculate_max_nesting(Code(tree[u].text))[1] = NESTING_THRESHOLD
        /\ Found("deep_nesting", tree[u].path) = {}

\* the label MarkedLines gives for a line
LabelOf(line) ==
    LET k == CHOOSE i \in DOMAIN MarkedLines : MarkedLines[i].line = line
    IN  MarkedLines[k].label

\* the details of the legacy_marker violations a file of the tree is to have: for
\* every line with a label, in the order of the lines, one that carries the label
ExpectedMarkers(t) ==
    Concat(LAMBDA sts, n : IF LabelOf(sts[n].note) = "" THEN <<>>
                           ELSE <<"Line " \o ToStr(n) \o ": " \o LabelOf(sts[n].note)
                                  \o " - " \o sts[n].note>>,
           tree[t].text.stmts, 1, Len(tree[t].text.stmts))

\* C28: once check_legacy_markers has run, every file has at most one
\* legacy_marker violation per line: one for each line that matches a pattern and
\* no exception pattern, labelled with the first pattern of the list that matches,
\* and none for the other lines; and it has one legacy_file violation when its name
\* matches one or several of the file patterns, none otherwise.
C28_OneMarkerPerLine ==
    (FirstCall /\ Past("legacy_markers")) =>
        \A t \in DOMAIN tree :
            LET name == CHOOSE n \in DOMAIN MarkedNames : MarkedNames[n].path = tree[t].path
            IN  /\ DetailsOf("legacy_marker", Abs(tree[t].path)) = ExpectedMarkers(t)
                /\ Cardinality(Found("legacy_file", Abs(tree[t].path)))
                        = IF MarkedNames[name].legacy THEN 1 ELSE 0

\* check_legacy_markers has run on a file whose name matches two file patterns,
\* with a line that matches two patterns and a line that matches a pattern and an
\* exception pattern
C28_Witness ==
    /\ FirstCall /\ Past("legacy_markers")
    /\ \E t \in DOMAIN tree :
        /\ tree[t].path = "b_old.bak.js"
        /\ Len(tree[t].text.stmts) = 2
        /\ tree[t].text.stmts[1].note = "// workaround for a deprecated call"
        /\ tree[t].text.stmts[2].note = "// deprecated since 2.0, legacy"
        /\ Cardinality(Found("legacy_marker", Abs(tree[t].path))) = 1
        /\ Cardinality(Found("legacy_file", Abs(tree[t].path))) = 1

\* the keys of a dictionary of the graph
KeysOf(d) == {d[i].k : i \in DOMAIN d}

\* C29 (as claimed): once the graph is built, a file A is listed in imported_by[T]
\* exactly when imports[A] holds an entry whose target is T, whether the import is
\* named, default or of a namespace.
C29_ImportedByIsReverseIndex ==
    Past("import_graph") =>
        \A A \in KeysOf(graph.imports) \cup UNION {Range(graph.imported_by[i].v) :
                                                    i \in DOMAIN graph.imported_by} :
            \A T \in KeysOf(graph.imported_by) \cup {im[2] : im \in Range(DictGet(graph.imports, A))} :
                A \in Range(DictGet(graph.imported_by, T))
                    <=> \E im \in Range(DictGet(graph.imports, A)) : im[2] = T

\* the default exports of the file, each under the name graph.py records it with
DefaultExportNames(t) ==
    {IF st.specs[1].n = "" THEN "default" ELSE st.specs[1].n :
        st \in {x \in Range(tree[t].text.stmts) : x.k = "exportDefault"}}

\* some file of the tree brings in the module by a default import
DefaultImported(t) ==
    \E u \in DOMAIN tree :
        \E st \in Range(ImportStmts(u)) :
            st.k = "importDefault" /\ ModuleOf(u, st.from) = tree[t].path

\* C30 (as claimed): once check_dead_code has run, a default export of a file that
\* another file brings in by a default import is not reported as unused_export,
\* whatever the local name the importing file gives it.
C30_DefaultImportUsesDefaultExport ==
    (FirstCall /\ Past("dead_code")) =>
        \A t \in DOMAIN tree :
            DefaultImported(t) =>
                \A name \in DefaultExportNames(t) :
                    \A v \in Range(violations) :
                        ~(/\ v.type = "unused_export"
                          /\ v.file = tree[t].path
                          /\ v.detail = "Export '" \o name \o "' is never imported")

====
